---- MODULE Spec2Model ----
(***************************************************************************)
(* Model of the ov5670 sensor driver (src/ov5670/ov5670.c): attach         *)
(* (probe), the power sequencer, the control handler, format selection,    *)
(* the streaming state machine and the system-sleep hooks.                 *)
(*                                                                         *)
(* The driver state is kept in one variable per field.  Every driver       *)
(* function is an operator from a "world" record (all fields, plus the     *)
(* bus fault schedule, the return value and the trace of the running       *)
(* operation) to the world it leaves behind; an action applies one         *)
(* operator to the current world and commits the result.                   *)
(***************************************************************************)
EXTENDS Integers, Sequences, FiniteSets, TLC

(***************************************************************************)
(* Bounds of the model.                                                    *)
(***************************************************************************)
\* number of entries of each register table that the model keeps
MaxRegs == 2
\* number of operations after attach that a behaviour may contain
MaxOps == 4
\* number of threads that call into the driver at the same time
MaxThreads == 2
\* number of calls the threads make together
MaxCalls == 3
\* largest number of bytes of a firmware object
MaxBlob == 4
\* handles in the _DEP package of a device
MaxHandles == 2

(***************************************************************************)
(* Program constants.                                                      *)
(***************************************************************************)
EIO == 5
EINVAL == 22
ENXIO == 6
ENODEV == 19
ENOMEM == 12

OV5670_REG_MODE_SELECT == 256
OV5670_MODE_STANDBY == 0
OV5670_MODE_STREAMING == 1
OV5670_REG_SOFTWARE_RST == 259
OV5670_SOFTWARE_RST == 1
OV5670_REG_VTS == 14350
OV5670_VTS_30FPS == 2056
OV5670_VTS_MAX == 65535
OV5670_FIXED_PPL == 2724
OV5670_REG_EXPOSURE == 13568
OV5670_EXPOSURE_MIN == 4
OV5670_REG_ANALOG_GAIN == 13576
ANALOG_GAIN_DEFAULT == 128
ANALOG_GAIN_MAX == 8191
OV5670_REG_R_DGTL_GAIN == 20530
OV5670_REG_G_DGTL_GAIN == 20532
OV5670_REG_B_DGTL_GAIN == 20534
OV5670_DGTL_GAIN_DEFAULT == 1024
OV5670_DGTL_GAIN_MAX == 4095
OV5670_REG_TEST_PATTERN == 17155
OV5670_TEST_PATTERN_ENABLE == 8
OV5670_REG_TEST_PATTERN_CTRL == 17184
OV5670_REG_CHIP_ID == 12298
OV5670_LINK_FREQ_422MHZ_INDEX == 0
retry_count == 4

\* link_freq_configs[0].pixel_rate = (422400000 * 2 * 2) / 10
link_freq_pixel_rate == (422400000 * 2 * 2) \div 10

\* the mode catalog, in catalog order
supported_modes ==
  << [width |-> 2592, height |-> 1944, vts_def |-> OV5670_VTS_30FPS,
      vts_min |-> OV5670_VTS_30FPS, link_freq_index |-> OV5670_LINK_FREQ_422MHZ_INDEX],
     [width |-> 1296, height |-> 972, vts_def |-> OV5670_VTS_30FPS,
      vts_min |-> 996, link_freq_index |-> OV5670_LINK_FREQ_422MHZ_INDEX],
     [width |-> 648, height |-> 486, vts_def |-> OV5670_VTS_30FPS,
      vts_min |-> 516, link_freq_index |-> OV5670_LINK_FREQ_422MHZ_INDEX],
     [width |-> 2560, height |-> 1440, vts_def |-> OV5670_VTS_30FPS,
      vts_min |-> OV5670_VTS_30FPS, link_freq_index |-> OV5670_LINK_FREQ_422MHZ_INDEX],
     [width |-> 1280, height |-> 720, vts_def |-> OV5670_VTS_30FPS,
      vts_min |-> 1020, link_freq_index |-> OV5670_LINK_FREQ_422MHZ_INDEX],
     [width |-> 640, height |-> 360, vts_def |-> OV5670_VTS_30FPS,
      vts_min |-> 510, link_freq_index |-> OV5670_LINK_FREQ_422MHZ_INDEX] >>

\* the output-size entries (0x3808..0x380b) of each mode's register table
mode_regs ==
  << << <<14344, 10>>, <<14345, 32>>, <<14346, 7>>, <<14347, 152>> >>,
     << <<14344, 5>>, <<14345, 16>>, <<14346, 3>>, <<14347, 204>> >>,
     << <<14344, 2>>, <<14345, 136>>, <<14346, 1>>, <<14347, 230>> >>,
     << <<14344, 10>>, <<14345, 0>>, <<14346, 5>>, <<14347, 160>> >>,
     << <<14344, 5>>, <<14345, 0>>, <<14346, 2>>, <<14347, 208>> >>,
     << <<14344, 2>>, <<14345, 128>>, <<14346, 1>>, <<14347, 104>> >> >>

\* the first entries of the link-frequency (PLL) register table
mipi_data_rate_840mbps ==
  << <<768, 4>>, <<769, 0>>, <<770, 132>>, <<771, 0>> >>

\* link_freq_configs, indexed from 1
link_freq_configs ==
  << [pixel_rate |-> link_freq_pixel_rate, reg_list |-> mipi_data_rate_840mbps] >>

Min(a, b) == IF a < b THEN a ELSE b
Max(a, b) == IF a > b THEN a ELSE b

\* a register table cut to the number of entries the model keeps
Prefix(s) == SubSeq(s, 1, Min(Len(s), MaxRegs))

VARIABLES
  phase,              \* position of the device in its life cycle
  regulator_enabled,  \* struct ov5670.regulator_enabled
  clk_enabled,        \* struct ov5670.clk_enabled
  streaming,          \* struct ov5670.streaming
  cur_mode,           \* struct ov5670.cur_mode, as an index into supported_modes
  ctrls,              \* the controls of struct ov5670.ctrl_handler
  gpio_crs,           \* level driven on the three _CRS GPIO lines
  gpio_pmic,          \* level driven on the ten PMIC GPIO lines
  reg_count,          \* enables minus disables issued on the regulator bundle
  clk_count,          \* enables minus disables issued on the clock
  held,               \* resources held: companion reference, GPIOs, lookup table
  pm_enabled,         \* runtime PM enabled for the device
  usage_count,        \* runtime-PM usage count of the device
  suspended,          \* between a system suspend and its resume
  hw,                 \* sensor registers the model follows
  last,               \* the operation that ran last: its inputs, result and trace
  nops,               \* number of operations run since attach
  io,                 \* the last call of ov5670_write_reg made on its own
  acpi,               \* the last call of read_acpi_block (get_acpi_data.c)
  sched               \* the threads inside the driver and the owner of the mutex

vars == << phase, regulator_enabled, clk_enabled, streaming, cur_mode, ctrls,
           gpio_crs, gpio_pmic, reg_count, clk_count, held, pm_enabled,
           usage_count, suspended, hw, last, nops, io, acpi, sched >>

(***************************************************************************)
(* The world record.                                                       *)
(***************************************************************************)
NoLast ==
  [op |-> "none", ret |-> 0, tr |-> << >>, enable |-> FALSE, pm_ok |-> TRUE,
   usage_before |-> 0, streaming_before |-> FALSE, same |-> TRUE,
   attempts |-> 0, pd_paths |-> 0, clk_failed |-> 0, att_ret |-> 0,
   att_clk_ok |-> TRUE, req |-> << 0, 0 >>, try |-> FALSE, prev |-> "none",
   mode_before |-> 0, ranges_same |-> TRUE, id |-> "none", val |-> 0,
   val_before |-> 0]

\* the threads that call into the driver
Threads == 1..MaxThreads

World ==
  [regulator_enabled |-> regulator_enabled, clk_enabled |-> clk_enabled,
   streaming |-> streaming, cur_mode |-> cur_mode, ctrls |-> ctrls,
   gpio_crs |-> gpio_crs, gpio_pmic |-> gpio_pmic,
   reg_count |-> reg_count, clk_count |-> clk_count, held |-> held,
   pm_enabled |-> pm_enabled, usage_count |-> usage_count, hw |-> hw,
   \* bookkeeping of the running operation
   ret |-> 0, tr |-> << >>, bus |-> 0, rd |-> 0,
   attempts |-> 0, pd_paths |-> 0, clk_failed |-> 0,
   att_ret |-> 0, att_clk_ok |-> TRUE]

\* an event of the trace: a resource step (step = "power") or a bus transaction
Ev(step, kind, reg, len, val, ok) ==
  [step |-> step, kind |-> kind, reg |-> reg, len |-> len, val |-> val, ok |-> ok]

\* append a resource step to the trace of the running operation
Log(w, kind) == [w EXCEPT !.tr = Append(@, Ev("power", kind, 0, 0, 0, TRUE))]

(***************************************************************************)
(* Resource Sequencer.                                                     *)
(***************************************************************************)
\* gpio_crs_ctrl: drives xshutdn, pwdnb and led_gpio to flag; returns 0
gpio_crs_ctrl(w, flag) ==
  [Log(w, IF flag THEN "crs_on" ELSE "crs_off") EXCEPT !.gpio_crs = flag, !.ret = 0]

\* gpio_pmic_ctrl: drives the ten PMIC lines to flag; returns 0
gpio_pmic_ctrl(w, flag) ==
  [Log(w, IF flag THEN "pmic_on" ELSE "pmic_off")
     EXCEPT !.gpio_pmic = flag, !.ret = 0]

\* regulator_bulk_enable: enables the whole bundle or, on failure, none of it
regulator_bulk_enable(w, ok) ==
  IF ok THEN [Log(w, "reg_enable") EXCEPT !.reg_count = @ + 1, !.ret = 0]
        ELSE [Log(w, "reg_enable_failed") EXCEPT !.ret = -EIO]

\* clk_prepare_enable
clk_prepare_enable(w, ok) ==
  IF ok THEN [Log(w, "clk_enable") EXCEPT !.clk_count = @ + 1, !.ret = 0]
        ELSE [Log(w, "clk_enable_failed") EXCEPT !.ret = -EIO]

\* clk_disable_unprepare
clk_disable_unprepare(w) ==
  [Log(w, "clk_disable") EXCEPT !.clk_count = @ - 1]

\* regulator_bulk_disable
regulator_bulk_disable(w) ==
  [Log(w, "reg_disable") EXCEPT !.reg_count = @ - 1, !.ret = 0]

\* the "turn on" block of power_ctrl (taken when flag is set): every step
\* runs, the flags are set whatever regulator_bulk_enable and
\* clk_prepare_enable return
power_ctrl_on(w, regOk, clkOk) ==
  [clk_prepare_enable(
     [regulator_bulk_enable(gpio_pmic_ctrl(gpio_crs_ctrl(w, TRUE), TRUE), regOk)
        EXCEPT !.regulator_enabled = TRUE],
     clkOk)
     EXCEPT !.clk_enabled = TRUE, !.att_clk_ok = clkOk]

\* power_ctrl, "turn off in reverse order": the clock, if its flag is set
power_ctrl_off_clk(w) ==
  IF w.clk_enabled
    THEN [clk_disable_unprepare(w) EXCEPT !.clk_enabled = FALSE]
    ELSE w

\* a turn-off block that disables the regulator bundle whatever its flag says
power_ctrl_off_regulator_always(w) ==
  [regulator_bulk_disable(w) EXCEPT !.regulator_enabled = FALSE]

\* power_ctrl, "turn off in reverse order": the regulator bundle, if its flag
\* is set
power_ctrl_off_regulator(w) ==
  IF w.regulator_enabled
    THEN [regulator_bulk_disable(w) EXCEPT !.regulator_enabled = FALSE]
    ELSE w

\* a turn-off block that drives the _CRS lines before the PMIC lines
power_ctrl_off_swapped(w, flag) ==
  gpio_pmic_ctrl(gpio_crs_ctrl(power_ctrl_off_regulator(power_ctrl_off_clk(w)),
                               flag), flag)

\* the "turn off in reverse order" block of power_ctrl; the GPIO lines are
\* driven to flag
power_ctrl_off(w, flag) ==
  gpio_crs_ctrl(gpio_pmic_ctrl(power_ctrl_off_regulator(power_ctrl_off_clk(w)),
                               flag), flag)

\* power_ctrl: the turn-on block has no return and no else, so the turn-off
\* block runs for both values of flag; the value returned is the one of the
\* last gpio_crs_ctrl
power_ctrl(w, flag, regOk, clkOk) ==
  IF flag THEN power_ctrl_off(power_ctrl_on(w, regOk, clkOk), flag)
          ELSE power_ctrl_off(w, flag)

\* gpio_ctrl: nothing to do yet, returns 0
gpio_ctrl(w, flag) == [w EXCEPT !.ret = 0]

\* __power_up, the label fail_power: power_ctrl(sd, 0), the error is kept
fail_power(w) ==
  [power_ctrl(Log([w EXCEPT !.pd_paths = @ + 1], "fail_power"), FALSE, TRUE, TRUE)
     EXCEPT !.ret = w.ret]

\* __power_up after power_ctrl(sd, 1) returned; gpio_ctrl(sd, 1) returns 0,
\* so neither its retry nor its fail_power is taken
power_up_powered(w) ==
  IF w.ret # 0 THEN fail_power(w) ELSE gpio_ctrl(w, TRUE)

\* the record of one attempt: its result and whether its clock enable failed
attempt_done(w, clkOk) ==
  [w EXCEPT !.att_ret = w.ret, !.clk_failed = IF clkOk THEN @ ELSE @ + 1]

\* __power_up: one power-up attempt
power_up_attempt(w, regOk, clkOk) ==
  attempt_done(
    power_up_powered(
      power_ctrl(Log([w EXCEPT !.attempts = @ + 1], "attempt"), TRUE, regOk, clkOk)),
    clkOk)

\* power_down; gpio_ctrl(sd, 0) returns 0, so its retry is not taken
power_down(w) ==
  power_ctrl(Log([gpio_ctrl(w, FALSE) EXCEPT !.pd_paths = @ + 1], "power_down"),
             FALSE, TRUE, TRUE)

\* power_up: the retry loop from attempt i on; regOk[i] and clkOk[i] tell
\* whether the regulator and the clock enable of attempt i succeed
RECURSIVE power_up_from(_, _, _, _)
RECURSIVE power_up_next(_, _, _, _)
power_up_from(w, i, regOk, clkOk) ==
  IF i > retry_count
    THEN w
    ELSE power_up_next(power_up_attempt(w, regOk[i], clkOk[i]), i, regOk, clkOk)

\* power_up: the body of the loop after __power_up returned w.ret; a failed
\* attempt is followed by power_down and the next attempt
power_up_next(w, i, regOk, clkOk) ==
  IF w.ret = 0
    THEN w
    ELSE power_up_from([power_down(w) EXCEPT !.ret = w.ret], i + 1, regOk, clkOk)

power_up(w, regOk, clkOk) == power_up_from(w, 1, regOk, clkOk)

(***************************************************************************)
(* Register Access Layer.  w.bus is the fault schedule of the serial bus:  *)
(* 0 when every transaction from now on completes, n > 0 when the n-th     *)
(* transaction from now is the one that does not.                          *)
(***************************************************************************)
BusOk(w) == w.bus # 1
BusNext(w) == IF w.bus > 0 THEN w.bus - 1 ELSE 0

RECURSIVE Pow256(_)
Pow256(n) == IF n = 0 THEN 1 ELSE 256 * Pow256(n - 1)

\* the bytes of val that ov5670_write_reg puts on the wire: val_p[4 - len .. 3]
\* of the big-endian 32-bit encoding, as a number
WireValue(len, val) == IF len >= 4 THEN val ELSE val % Pow256(len)

\* what a completed write leaves in the registers the model follows
HwWrite(h, reg, v) ==
  IF reg = OV5670_REG_MODE_SELECT THEN [h EXCEPT !.mode_select = v]
  ELSE IF reg = OV5670_REG_TEST_PATTERN THEN [h EXCEPT !.test_pattern = v]
  ELSE h

\* cpu_to_be32: the four bytes of val, the most significant one first
cpu_to_be32(val) ==
  << (val \div 16777216) % 256, (val \div 65536) % 256, (val \div 256) % 256,
     val % 256 >>

\* a copy loop that takes the bytes from the start of val_p
RECURSIVE write_reg_buf_leading(_, _, _)
write_reg_buf_leading(buf, val_p, val_i) ==
  IF val_i < 4
    THEN write_reg_buf_leading(Append(buf, val_p[Len(buf) - 1]), val_p, val_i + 1)
    ELSE buf

\* ov5670_write_reg, "while (val_i < 4) buf[buf_i++] = val_p[val_i++]": buf
\* holds the two address bytes at first, val_p is indexed from 0 in the code
RECURSIVE write_reg_buf(_, _, _)
write_reg_buf(buf, val_p, val_i) ==
  IF val_i < 4
    THEN write_reg_buf(Append(buf, val_p[val_i + 1]), val_p, val_i + 1)
    ELSE buf

\* ov5670_write_reg, the i2c_master_send of the bytes v; ok tells whether the
\* transfer completes
write_reg_send(w, step, reg, len, v, ok) ==
  [w EXCEPT !.tr = Append(@, Ev(step, "w", reg, len, v, ok)),
            !.bus = BusNext(w),
            !.hw = IF ok THEN HwWrite(@, reg, v) ELSE @,
            !.ret = IF ok THEN 0 ELSE -EIO]

\* ov5670_write_reg
ov5670_write_reg(w, step, reg, len, val) ==
  IF len > 4
    THEN [w EXCEPT !.ret = -EINVAL]
    ELSE write_reg_send(w, step, reg, len, WireValue(len, val), BusOk(w))

\* ov5670_read_reg, the i2c_transfer that reads v; ok tells whether the
\* transfer completes
read_reg_transfer(w, step, reg, len, v, ok) ==
  [w EXCEPT !.tr = Append(@, Ev(step, "r", reg, len, v, ok)),
            !.bus = BusNext(w),
            !.rd = IF ok THEN v ELSE @,
            !.ret = IF ok THEN 0 ELSE -EIO]

\* ov5670_read_reg; the value read is left in w.rd
ov5670_read_reg(w, step, reg, len) ==
  IF len > 4
    THEN [w EXCEPT !.ret = -EINVAL]
    ELSE read_reg_transfer(w, step, reg, len,
           (IF reg = OV5670_REG_TEST_PATTERN THEN w.hw.test_pattern ELSE 0)
             % Pow256(len),
           BusOk(w))

\* ov5670_write_regs: single-byte writes in list order, stop at the first error
RECURSIVE ov5670_write_regs(_, _, _, _)
RECURSIVE write_regs_next(_, _, _, _)
ov5670_write_regs(w, step, regs, i) ==
  IF i > Len(regs)
    THEN [w EXCEPT !.ret = 0]
    ELSE write_regs_next(ov5670_write_reg(w, step, regs[i][1], 1, regs[i][2]),
                         step, regs, i)

\* a list write that goes on with the next entry after a failed write
write_regs_next_continue(w, step, regs, i) ==
  ov5670_write_regs(w, step, regs, i + 1)

\* ov5670_write_regs: the test of the result of write i
write_regs_next(w, step, regs, i) ==
  IF w.ret # 0 THEN w ELSE ov5670_write_regs(w, step, regs, i + 1)

ov5670_write_reg_list(w, step, regs) == ov5670_write_regs(w, step, regs, 1)

(***************************************************************************)
(* Runtime PM of the device, as the driver uses it.                        *)
(***************************************************************************)
\* pm_runtime_get_sync: takes a reference whether or not the resume succeeds
pm_runtime_get_sync(w, ok) ==
  [w EXCEPT !.tr = Append(@, Ev("pm", "get_sync", 0, 0, 0, w.pm_enabled /\ ok)),
            !.usage_count = @ + 1,
            !.ret = IF ~w.pm_enabled \/ ~ok THEN -EIO ELSE 0]

pm_runtime_put_noidle(w) ==
  [w EXCEPT !.tr = Append(@, Ev("pm", "put_noidle", 0, 0, 0, TRUE)),
            !.usage_count = @ - 1]

pm_runtime_put(w) ==
  [w EXCEPT !.tr = Append(@, Ev("pm", "put", 0, 0, 0, TRUE)),
            !.usage_count = @ - 1]

\* pm_runtime_get_if_in_use: -EINVAL when runtime PM is disabled, 1 with a
\* reference taken when the device is active and in use, 0 otherwise
pm_runtime_get_if_in_use(w) ==
  IF ~w.pm_enabled THEN [w EXCEPT !.ret = -EINVAL]
  ELSE IF w.usage_count > 0
    THEN [w EXCEPT !.tr = Append(@, Ev("pm", "get_if_in_use", 0, 0, 0, TRUE)),
                   !.usage_count = @ + 1, !.ret = 1]
  ELSE [w EXCEPT !.ret = 0]

(***************************************************************************)
(* Control handler.  A control is [val, min, max, def, ro]; CtrlOrder is   *)
(* the order in which ov5670_init_controls creates the controls.           *)
(***************************************************************************)
CtrlOrder ==
  << "link_freq", "pixel_rate", "vblank", "hblank", "analogue_gain",
     "digital_gain", "exposure", "test_pattern" >>

CtrlIds == { CtrlOrder[i] : i \in 1..Len(CtrlOrder) }

Ctrl(val, min, max, def, ro) ==
  [val |-> val, min |-> min, max |-> max, def |-> def, ro |-> ro]

NoCtrls == [id \in CtrlIds |-> Ctrl(0, 0, 0, 0, TRUE)]

Clamp(v, min, max) == IF v < min THEN min ELSE IF v > max THEN max ELSE v

Mode(w) == supported_modes[w.cur_mode]

\* val with the bits of mask (one bit) set or cleared
SetBit(val, mask) == IF (val \div mask) % 2 = 1 THEN val ELSE val + mask
ClearBit(val, mask) == IF (val \div mask) % 2 = 1 THEN val - mask ELSE val

\* the controls ov5670_init_controls creates for the mode m
init_controls_for(m) ==
  [id \in CtrlIds |->
     CASE id = "link_freq" -> Ctrl(0, 0, 0, 0, TRUE)
       [] id = "pixel_rate" ->
            Ctrl(link_freq_pixel_rate, 0, link_freq_pixel_rate,
                 link_freq_pixel_rate, TRUE)
       [] id = "vblank" ->
            Ctrl(m.vts_def - m.height, m.vts_min - m.height,
                 OV5670_VTS_MAX - m.height, m.vts_def - m.height, FALSE)
       [] id = "hblank" ->
            Ctrl(OV5670_FIXED_PPL - m.width, OV5670_FIXED_PPL - m.width,
                 OV5670_FIXED_PPL - m.width, OV5670_FIXED_PPL - m.width, TRUE)
       [] id = "analogue_gain" ->
            Ctrl(ANALOG_GAIN_DEFAULT, 0, ANALOG_GAIN_MAX, ANALOG_GAIN_DEFAULT, FALSE)
       [] id = "digital_gain" ->
            Ctrl(OV5670_DGTL_GAIN_DEFAULT, 0, OV5670_DGTL_GAIN_MAX,
                 OV5670_DGTL_GAIN_DEFAULT, FALSE)
       [] id = "exposure" ->
            Ctrl(m.vts_def - 8, OV5670_EXPOSURE_MIN, m.vts_def - 8,
                 m.vts_def - 8, FALSE)
       [] OTHER -> Ctrl(0, 0, 1, 0, FALSE)]

\* ov5670_init_controls
ov5670_init_controls(w) ==
  [w EXCEPT !.ctrls = init_controls_for(Mode(w)), !.ret = 0]

\* ov5670_update_digital_gain: the write of the G register
update_digital_gain_g(w, d_gain) ==
  IF w.ret # 0 THEN w
  ELSE ov5670_write_reg(w, "ctrl", OV5670_REG_G_DGTL_GAIN, 2, d_gain)

\* ov5670_update_digital_gain: the write of the B register
update_digital_gain_b(w, d_gain) ==
  IF w.ret # 0 THEN w
  ELSE ov5670_write_reg(w, "ctrl", OV5670_REG_B_DGTL_GAIN, 2, d_gain)

\* ov5670_update_digital_gain: the same value to the R, G and B registers
ov5670_update_digital_gain(w, d_gain) ==
  update_digital_gain_b(
    update_digital_gain_g(
      ov5670_write_reg(w, "ctrl", OV5670_REG_R_DGTL_GAIN, 2, d_gain), d_gain),
    d_gain)

\* ov5670_enable_test_pattern: the read of the test-pattern register
test_pattern_read(w) ==
  IF w.ret # 0 THEN w
  ELSE ov5670_read_reg(w, "ctrl", OV5670_REG_TEST_PATTERN, 1)

\* a write-back that carries the enable bit and nothing of the value read
test_pattern_write_bit_only(w, pattern) ==
  IF w.ret # 0 THEN w
  ELSE ov5670_write_reg(w, "ctrl", OV5670_REG_TEST_PATTERN, 1,
         IF pattern # 0 THEN OV5670_TEST_PATTERN_ENABLE ELSE 0)

\* ov5670_enable_test_pattern: the write of the value read, with the enable
\* bit set or cleared
test_pattern_write(w, pattern) ==
  IF w.ret # 0 THEN w
  ELSE ov5670_write_reg(w, "ctrl", OV5670_REG_TEST_PATTERN, 1,
         IF pattern # 0 THEN SetBit(w.rd, OV5670_TEST_PATTERN_ENABLE)
                        ELSE ClearBit(w.rd, OV5670_TEST_PATTERN_ENABLE))

\* ov5670_enable_test_pattern: read-modify-write of the enable bit
ov5670_enable_test_pattern(w, pattern) ==
  test_pattern_write(
    test_pattern_read(
      ov5670_write_reg(w, "ctrl", OV5670_REG_TEST_PATTERN_CTRL, 1, 0)),
    pattern)

\* the second switch of ov5670_set_ctrl: the register access of control id
set_ctrl_hw(w, id, val) ==
  CASE id = "analogue_gain" -> ov5670_write_reg(w, "ctrl", OV5670_REG_ANALOG_GAIN, 2, val)
    [] id = "digital_gain" -> ov5670_update_digital_gain(w, val)
    [] id = "exposure" -> ov5670_write_reg(w, "ctrl", OV5670_REG_EXPOSURE, 3, val * 16)
    [] id = "vblank" ->
         ov5670_write_reg(w, "ctrl", OV5670_REG_VTS, 2, Mode(w).height + val)
    [] id = "test_pattern" -> ov5670_enable_test_pattern(w, val)
    [] OTHER -> [w EXCEPT !.ret = 0]

RECURSIVE ov5670_set_ctrl(_, _, _)
RECURSIVE v4l2_set_ctrl(_, _, _)
RECURSIVE v4l2_ctrl_modify_range(_, _, _, _, _)

\* the first switch of ov5670_set_ctrl: a new vblank moves the upper limit of
\* exposure; the result of __v4l2_ctrl_modify_range is not looked at
set_ctrl_exposure_range(w, id, val) ==
  IF id = "vblank"
    THEN v4l2_ctrl_modify_range(w, "exposure", w.ctrls["exposure"].min,
                                Mode(w).height + val - 8, Mode(w).height + val - 8)
    ELSE w

\* ov5670_set_ctrl: pm_runtime_put after the register access, whose result is
\* returned
set_ctrl_put(w) == [pm_runtime_put(w) EXCEPT !.ret = w.ret]

\* ov5670_set_ctrl after pm_runtime_get_if_in_use returned w.ret: nothing is
\* written when it returned 0
set_ctrl_in_use(w, id, val) ==
  IF w.ret = 0
    THEN w
    ELSE set_ctrl_put(set_ctrl_hw([w EXCEPT !.ret = 0], id, val))

\* ov5670_set_ctrl, the s_ctrl operation, called with the new value of id
ov5670_set_ctrl(w, id, val) ==
  set_ctrl_in_use(
    pm_runtime_get_if_in_use([set_ctrl_exposure_range(w, id, val) EXCEPT !.ret = 0]),
    id, val)

\* set_ctrl of the control framework after s_ctrl returned w.ret: the new
\* value becomes the current one only when s_ctrl succeeds
new_to_cur(w, id, nv) ==
  IF w.ret # 0 THEN w ELSE [w EXCEPT !.ctrls[id].val = nv]

\* set_ctrl of the control framework with the value nv already in range: the
\* s_ctrl operation runs only when the value changes
try_or_set(w, id, nv) ==
  IF nv = w.ctrls[id].val
    THEN [w EXCEPT !.ret = 0]
    ELSE new_to_cur(ov5670_set_ctrl(w, id, nv), id, nv)

\* set_ctrl of the control framework: the value is brought into range first
v4l2_set_ctrl(w, id, val) ==
  try_or_set(w, id, Clamp(val, w.ctrls[id].min, w.ctrls[id].max))

\* __v4l2_ctrl_modify_range after the limits changed: the current value is
\* brought into range through set_ctrl when that changes it
modify_range_value(w, id) ==
  IF Clamp(w.ctrls[id].val, w.ctrls[id].min, w.ctrls[id].max) # w.ctrls[id].val
    THEN v4l2_set_ctrl(w, id, w.ctrls[id].val)
    ELSE w

\* __v4l2_ctrl_modify_range
v4l2_ctrl_modify_range(w, id, min, max, def) ==
  IF min > max \/ def < min \/ def > max
    THEN [w EXCEPT !.ret = -EINVAL]
    ELSE modify_range_value(
           [w EXCEPT !.ctrls[id].min = min, !.ctrls[id].max = max,
                     !.ctrls[id].def = def, !.ret = 0], id)

\* __v4l2_ctrl_handler_setup: s_ctrl with the current value of every control
\* that is not read-only, in creation order, up to the first error
RECURSIVE v4l2_ctrl_handler_setup(_, _)
RECURSIVE handler_setup_next(_, _)
v4l2_ctrl_handler_setup(w, i) ==
  IF i > Len(CtrlOrder)
    THEN [w EXCEPT !.ret = 0]
    ELSE handler_setup_next(
           IF w.ctrls[CtrlOrder[i]].ro
             THEN [w EXCEPT !.ret = 0]
             ELSE ov5670_set_ctrl(w, CtrlOrder[i], w.ctrls[CtrlOrder[i]].val),
           i)

\* __v4l2_ctrl_handler_setup: the test of the result of control i
handler_setup_next(w, i) ==
  IF w.ret # 0 THEN w ELSE v4l2_ctrl_handler_setup(w, i + 1)

(***************************************************************************)
(* Mode/Format Negotiator.                                                 *)
(***************************************************************************)
Abs(x) == IF x < 0 THEN -x ELSE x

\* the error v4l2_find_nearest_size computes for entry i
size_error(i, width, height) ==
  Abs(supported_modes[i].width - width) + Abs(supported_modes[i].height - height)

\* a scan that keeps the best entry unless the error of the new one is smaller
RECURSIVE find_nearest_from_first(_, _, _, _, _)
find_nearest_from_first(i, width, height, best, min_error) ==
  IF i > Len(supported_modes)
    THEN best
    ELSE IF min_error >= 0 /\ size_error(i, width, height) >= min_error
           THEN find_nearest_from_first(i + 1, width, height, best, min_error)
           ELSE IF size_error(i, width, height) = 0
                  THEN i
                  ELSE find_nearest_from_first(i + 1, width, height, i,
                                               size_error(i, width, height))

\* v4l2_find_nearest_size over supported_modes, from entry i on: an entry
\* replaces the best one unless its error is larger; an exact match ends the scan
RECURSIVE find_nearest_from(_, _, _, _, _)
find_nearest_from(i, width, height, best, min_error) ==
  IF i > Len(supported_modes)
    THEN best
    ELSE IF min_error >= 0 /\ size_error(i, width, height) > min_error
           THEN find_nearest_from(i + 1, width, height, best, min_error)
           ELSE IF size_error(i, width, height) = 0
                  THEN i
                  ELSE find_nearest_from(i + 1, width, height, i,
                                         size_error(i, width, height))

\* min_error starts at U32_MAX, written -1 here
v4l2_find_nearest_size(width, height) == find_nearest_from(1, width, height, 0, -1)

\* ov5670_set_pad_format: link_freq and pixel_rate follow the new mode
set_pad_format_link(w) ==
  v4l2_set_ctrl(
    v4l2_set_ctrl(w, "link_freq", Mode(w).link_freq_index),
    "pixel_rate", link_freq_configs[Mode(w).link_freq_index + 1].pixel_rate)

\* ov5670_set_pad_format: the range of vblank, then its value
set_pad_format_vblank(w) ==
  v4l2_set_ctrl(
    v4l2_ctrl_modify_range(w, "vblank", Mode(w).vts_min - Mode(w).height,
                           OV5670_VTS_MAX - Mode(w).height,
                           Mode(w).vts_def - Mode(w).height),
    "vblank", Mode(w).vts_def - Mode(w).height)

\* a set_fmt that leaves hblank as the previous mode set it
set_pad_format_hblank_kept(w) == w

\* ov5670_set_pad_format: hblank is the one value the new width leaves
set_pad_format_hblank(w) ==
  v4l2_ctrl_modify_range(w, "hblank", OV5670_FIXED_PPL - Mode(w).width,
                         OV5670_FIXED_PPL - Mode(w).width,
                         OV5670_FIXED_PPL - Mode(w).width)

\* a set_fmt that updates the controls before it stores the new mode, from
\* the mode that was current until then
ov5670_set_pad_format_stale_mode(w, width, height) ==
  [set_pad_format_hblank(set_pad_format_vblank(set_pad_format_link(w)))
     EXCEPT !.cur_mode = v4l2_find_nearest_size(width, height), !.ret = 0]

\* ov5670_set_pad_format on the active format
ov5670_set_pad_format(w, width, height) ==
  [set_pad_format_hblank(
     set_pad_format_vblank(
       set_pad_format_link(
         [w EXCEPT !.cur_mode = v4l2_find_nearest_size(width, height)])))
     EXCEPT !.ret = 0]

(***************************************************************************)
(* Streaming State Machine.                                                *)
(***************************************************************************)
\* the end of one step of ov5670_start_streaming, with the value it returned
StepEnd(w, step) == [w EXCEPT !.tr = Append(@, Ev(step, "ret", 0, 0, w.ret, w.ret = 0))]

\* ov5670_start_streaming: the software reset
start_streaming_reset(w) ==
  StepEnd(ov5670_write_reg(w, "reset", OV5670_REG_SOFTWARE_RST, 1,
                           OV5670_SOFTWARE_RST), "reset")

\* ov5670_start_streaming: the PLL register list of the link frequency
start_streaming_pll(w) ==
  IF w.ret # 0 THEN w
  ELSE StepEnd(ov5670_write_reg_list(w, "pll",
                 Prefix(link_freq_configs[Mode(w).link_freq_index + 1].reg_list)),
               "pll")

\* ov5670_start_streaming: the register list of the current mode
start_streaming_mode(w) ==
  IF w.ret # 0 THEN w
  ELSE StepEnd(ov5670_write_reg_list(w, "mode", Prefix(mode_regs[w.cur_mode])), "mode")

\* ov5670_start_streaming: the replay of the controls
start_streaming_ctrls(w) ==
  IF w.ret # 0 THEN w ELSE StepEnd(v4l2_ctrl_handler_setup(w, 1), "ctrl")

\* ov5670_start_streaming: the write that leaves standby
start_streaming_select(w) ==
  IF w.ret # 0 THEN w
  ELSE StepEnd(ov5670_write_reg(w, "stream", OV5670_REG_MODE_SELECT, 1,
                                OV5670_MODE_STREAMING), "stream")

\* ov5670_start_streaming with the mode table written before the PLL table
ov5670_start_streaming_swapped(w) ==
  start_streaming_select(
    start_streaming_ctrls(
      start_streaming_pll(start_streaming_mode(start_streaming_reset(w)))))

\* ov5670_start_streaming
ov5670_start_streaming(w) ==
  start_streaming_select(
    start_streaming_ctrls(
      start_streaming_mode(start_streaming_pll(start_streaming_reset(w)))))

\* ov5670_stop_streaming that hands the result of the standby write to its caller
ov5670_stop_streaming_propagate(w) ==
  ov5670_write_reg(w, "standby", OV5670_REG_MODE_SELECT, 1, OV5670_MODE_STANDBY)

\* ov5670_stop_streaming: the result of the standby write is only logged
ov5670_stop_streaming(w) ==
  [ov5670_write_reg(w, "standby", OV5670_REG_MODE_SELECT, 1, OV5670_MODE_STANDBY)
     EXCEPT !.ret = 0]

\* a test of the requested state that never finds it reached
stream_always_changes(w, enable) == FALSE

\* ov5670_set_stream: the test for a request of the state already reached
stream_unchanged(w, enable) == w.streaming = enable

\* a failed activation that keeps the reference pm_runtime_get_sync took
set_stream_pm_failed_leak(g) == g

\* ov5670_set_stream: the branch taken when pm_runtime_get_sync fails
set_stream_pm_failed(g) == [pm_runtime_put_noidle(g) EXCEPT !.ret = g.ret]

\* an error label that keeps the runtime-PM reference
set_stream_error_leak(s) == s

\* ov5670_set_stream: the error label, reached when ov5670_start_streaming fails
set_stream_error(s) == [pm_runtime_put(s) EXCEPT !.ret = s.ret]

\* ov5670_set_stream after ov5670_start_streaming returned s.ret
set_stream_started(s, enable) ==
  IF s.ret # 0 THEN set_stream_error(s) ELSE [s EXCEPT !.streaming = enable]

\* ov5670_set_stream, enable set, after pm_runtime_get_sync returned g.ret
set_stream_start(g, enable) ==
  IF g.ret < 0
    THEN set_stream_pm_failed(g)
    ELSE set_stream_started(ov5670_start_streaming(g), enable)

\* a stream stop that keeps the runtime-PM reference of the start
set_stream_stopped_hold(s, enable) == [s EXCEPT !.streaming = enable]

\* ov5670_set_stream, enable clear, after ov5670_stop_streaming returned s.ret
set_stream_stopped(s, enable) ==
  [pm_runtime_put(s) EXCEPT !.streaming = enable, !.ret = s.ret]

\* ov5670_set_stream
ov5670_set_stream(w, enable, pmOk) ==
  IF stream_unchanged(w, enable)
    THEN [w EXCEPT !.ret = 0]
    ELSE IF enable
      THEN set_stream_start(pm_runtime_get_sync(w, pmOk), enable)
      ELSE set_stream_stopped(ov5670_stop_streaming(w), enable)

\* ov5670_suspend
ov5670_suspend(w) ==
  IF w.streaming THEN ov5670_stop_streaming(w) ELSE [w EXCEPT !.ret = 0]

\* a resume that returns the error of the start and leaves the sensor as it is
resume_started_no_stop(s) == s

\* ov5670_resume after ov5670_start_streaming returned s.ret
resume_started(s) ==
  IF s.ret # 0
    THEN [ov5670_stop_streaming(s) EXCEPT !.ret = s.ret]
    ELSE [s EXCEPT !.ret = 0]

\* ov5670_resume
ov5670_resume(w) ==
  IF w.streaming
    THEN resume_started(ov5670_start_streaming(w))
    ELSE [w EXCEPT !.ret = 0]

(***************************************************************************)
(* Attach and detach.                                                      *)
(***************************************************************************)
NoneHeld ==
  [dep_ref |-> 0, crs |-> FALSE, pmic |-> FALSE, lookup |-> 0, mutex |-> FALSE,
   handler |-> FALSE, entity |-> FALSE, registered |-> FALSE]

\* gpio_crs_put
gpio_crs_put(w) == [Log(w, "crs_put") EXCEPT !.held.crs = FALSE]

\* gpio_pmic_put: the ten lines, then the lookup table
gpio_pmic_put(w) ==
  [Log(w, "pmic_put") EXCEPT !.held.pmic = FALSE, !.held.lookup = @ - 1]

\* the unwinding labels of ov5670_probe; each falls through to the next
put_crs_gpio(w) == [gpio_crs_put(w) EXCEPT !.ret = w.ret]
put_pmic_gpio(w) == put_crs_gpio(gpio_pmic_put(w))
disable_regulator(w) == put_pmic_gpio([regulator_bulk_disable(w) EXCEPT !.ret = w.ret])
error_mutex_destroy(w) == disable_regulator([w EXCEPT !.held.mutex = FALSE])
error_handler_free(w) == error_mutex_destroy([w EXCEPT !.held.handler = FALSE])
error_entity_cleanup(w) == error_handler_free([w EXCEPT !.held.entity = FALSE])

AcquireFails == {"none", "kzalloc", "dep", "crs", "pmic", "regulator", "clock"}

\* ov5670_probe: get_dep_dev found the companion and took a reference to it
probe_dep(w) == [Log(w, "dep_get") EXCEPT !.held.dep_ref = @ + 1]

\* ov5670_probe: gpio_crs_get succeeded
probe_crs(w) == [Log(probe_dep(w), "crs_get") EXCEPT !.held.crs = TRUE]

\* gpio_pmic_get: the lookup table is added first
probe_lookup(w) == [Log(probe_crs(w), "lookup_add") EXCEPT !.held.lookup = @ + 1]

\* gpio_pmic_get succeeded: the lines are requested as outputs driven high
probe_pmic(w) ==
  [Log(probe_lookup(w), "pmic_get") EXCEPT !.held.pmic = TRUE, !.gpio_pmic = TRUE]

\* ov5670_probe: regulator_pmic_get succeeded
probe_regulator(w) == Log(probe_pmic(w), "regulator_get")

\* ov5670_probe: ov5670_configure_clock succeeded
probe_clock(w) == Log(probe_regulator(w), "clk_get")

\* ov5670_probe up to ov5670_configure_clock; fail names the step that fails
probe_acquire(w, fail) ==
  CASE fail = "kzalloc" -> [w EXCEPT !.ret = -ENOMEM]
    [] fail = "dep" -> [w EXCEPT !.ret = -ENODEV]
    [] fail = "crs" -> [probe_dep(w) EXCEPT !.ret = -EINVAL]
    [] fail = "pmic" ->
         put_crs_gpio([Log(probe_lookup(w), "lookup_remove")
                         EXCEPT !.held.lookup = @ - 1, !.ret = -EINVAL])
    [] fail = "regulator" -> put_pmic_gpio([probe_pmic(w) EXCEPT !.ret = -ENODEV])
    [] fail = "clock" -> disable_regulator([probe_regulator(w) EXCEPT !.ret = -EINVAL])
    [] OTHER -> [probe_clock(w) EXCEPT !.ret = 0]

\* ov5670_probe: the error branch of the power_up call
probe_power_up_failed(w) ==
  IF w.ret # 0 THEN [power_down(w) EXCEPT !.ret = w.ret] ELSE w

\* ov5670_probe: the power_up call and its error branch
probe_power_up(w, regOk, clkOk) == probe_power_up_failed(power_up(w, regOk, clkOk))

\* ov5670_identify_module after the read of the chip id returned w.ret
identify_module_check(w, mismatch) ==
  IF w.ret # 0 THEN w
  ELSE IF mismatch THEN [w EXCEPT !.ret = -ENXIO]
  ELSE w

\* ov5670_identify_module; the chip answers with its id unless mismatch
ov5670_identify_module(w, mismatch) ==
  identify_module_check(ov5670_read_reg(w, "chip_id", OV5670_REG_CHIP_ID, 3), mismatch)

FinishFails == {"none", "identify_io", "identify_mismatch", "controls", "pads", "register"}

\* ov5670_probe: mutex_init and the default mode
probe_mode(w) == [w EXCEPT !.held.mutex = TRUE, !.cur_mode = 1]

\* ov5670_probe: ov5670_init_controls succeeded
probe_controls(w) == [ov5670_init_controls(probe_mode(w)) EXCEPT !.held.handler = TRUE]

\* ov5670_probe: media_entity_pads_init succeeded
probe_pads(w) == [probe_controls(w) EXCEPT !.held.entity = TRUE]

\* ov5670_probe: v4l2_async_register_subdev_sensor_common succeeded; from
\* here on the sub-device can be called, with runtime PM still disabled
probe_register(w) == [probe_pads(w) EXCEPT !.held.registered = TRUE, !.ret = 0]

\* ov5670_probe after the registration: streaming is cleared, then
\* pm_runtime_set_active, pm_runtime_enable, pm_runtime_idle and power_down
probe_enable(w) ==
  [power_down([w EXCEPT !.streaming = FALSE, !.pm_enabled = TRUE]) EXCEPT !.ret = 0]

\* ov5670_probe from the registration of the sub-device to its return
probe_registered(w) == probe_enable(probe_register(w))

\* ov5670_probe after ov5670_identify_module returned w.ret; an error of the
\* identification goes to error_print, which releases nothing
probe_identified(w, fail) ==
  CASE w.ret # 0 -> w
    [] fail = "controls" -> error_mutex_destroy([probe_mode(w) EXCEPT !.ret = -ENOMEM])
    [] fail = "pads" -> error_handler_free([probe_controls(w) EXCEPT !.ret = -EINVAL])
    [] fail = "register" -> error_entity_cleanup([probe_pads(w) EXCEPT !.ret = -EINVAL])
    [] OTHER -> probe_registered(w)

\* ov5670_probe from ov5670_identify_module on; fail names the step that fails
probe_finish(w, fail) ==
  probe_identified(
    ov5670_identify_module([w EXCEPT !.bus = IF fail = "identify_io" THEN 1 ELSE 0],
                           fail = "identify_mismatch"),
    fail)

\* ov5670_remove
ov5670_remove(w) ==
  [gpio_pmic_put(gpio_crs_put(w))
     EXCEPT !.held.registered = FALSE, !.held.entity = FALSE,
            !.held.handler = FALSE, !.held.mutex = FALSE,
            !.pm_enabled = FALSE, !.ret = 0]

(***************************************************************************)
(* Inputs.                                                                 *)
(***************************************************************************)
\* positions of the failing bus transaction of one operation (0: none)
BusFaults == 0..(2 * MaxRegs + 12)

\* power-on content of the test-pattern register
TestPatternResets == {5}

\* frame sizes requested from set_fmt: a catalog size, a size near 1280x720,
\* and a size as far from 2592x1944 as from 2560x1440
FmtRequests == { <<2592, 1944>>, <<1300, 700>>, <<2576, 1692>> }

\* the frame size of the current mode, which set_fmt hands back to its caller
ModeSize == << supported_modes[cur_mode].width, supported_modes[cur_mode].height >>

\* values a caller sets a control to; for vblank the largest value and the
\* default of the 1280x720 mode
CtrlVals(id) ==
  CASE id = "vblank" -> {ctrls[id].max, supported_modes[5].vts_def - supported_modes[5].height}
    [] id = "exposure" -> {OV5670_EXPOSURE_MIN, 70000}
    [] id = "analogue_gain" -> {ANALOG_GAIN_MAX}
    [] id = "digital_gain" -> {OV5670_DGTL_GAIN_MAX}
    [] id = "test_pattern" -> {0, 1}
    [] OTHER -> {0}

\* sizeof of the packed records get_acpi_data reads the blobs into
sizeof(type) == IF type = "intel_ssdb" THEN 108 ELSE 32

\* dump_ssdb: fields of struct intel_ssdb it decodes, each one byte, read at
\* the offset the packed layout gives them (data[1] is the byte at offset 0)
dump_ssdb(data) ==
  [link_used |-> data[29], lanes_used |-> data[30], degree |-> data[85],
   control_logic_id |-> data[91], mclk_port |-> data[95]]

\* no call of read_acpi_block, of get_dep_dev or of get_acpi_data yet
NoAcpi ==
  [eval |-> "none", blob |-> << >>, size |-> 0, data |-> << >>, ret |-> 0,
   allocated |-> 0, freed |-> 0, steps |-> << >>,
   dep |-> [bus |-> "none", has |-> FALSE, handles |-> << >>, junk |-> 0,
            ret |-> 0, dev |-> 0],
   probe |-> [ssdb |-> << >>, cldb |-> << >>, eval |-> "none", dep |-> 0, ret |-> 0,
              dumped |-> << >>,
              fields |-> dump_ssdb([i \in 1..sizeof("intel_ssdb") |-> 0])]]

(***************************************************************************)
(* The state machine.                                                      *)
(***************************************************************************)
Init ==
  /\ phase = "unbound"
  /\ regulator_enabled = FALSE
  /\ clk_enabled = FALSE
  /\ streaming = FALSE
  /\ cur_mode = 0
  /\ ctrls = NoCtrls
  /\ gpio_crs = FALSE
  /\ gpio_pmic = FALSE
  /\ reg_count = 0
  /\ clk_count = 0
  /\ held = NoneHeld
  /\ pm_enabled = FALSE
  /\ usage_count = 0
  /\ suspended = FALSE
  /\ hw \in { [mode_select |-> -1, test_pattern |-> t] : t \in TestPatternResets }
  /\ last = NoLast
  /\ nops = 0
  \* no call of ov5670_write_reg on its own and none of read_acpi_block yet
  /\ io = [reg |-> 0, len |-> 0, val |-> 0, buf |-> << >>, sent |-> << >>, ret |-> 0]
  /\ acpi = NoAcpi
  \* no thread is inside the driver and the mutex is free
  /\ sched = [pc |-> [t \in Threads |-> "idle"], op |-> [t \in Threads |-> "none"],
              ret |-> [t \in Threads |-> 0], owner |-> 0, calls |-> 0]

\* the limits and defaults of the controls cs, without their values
Ranges(cs) ==
  [id \in CtrlIds |-> [min |-> cs[id].min, max |-> cs[id].max, def |-> cs[id].def]]

\* the record kept of the operation that took World to r
Last(op, r, enable, pmOk) ==
  [op |-> op, ret |-> r.ret, tr |-> r.tr, enable |-> enable, pm_ok |-> pmOk,
   usage_before |-> usage_count, streaming_before |-> streaming,
   same |-> /\ r.streaming = streaming /\ r.cur_mode = cur_mode
            /\ r.ctrls = ctrls /\ r.usage_count = usage_count /\ r.hw = hw
            /\ r.regulator_enabled = regulator_enabled
            /\ r.clk_enabled = clk_enabled,
   attempts |-> r.attempts, pd_paths |-> r.pd_paths, clk_failed |-> r.clk_failed,
   att_ret |-> r.att_ret, att_clk_ok |-> r.att_clk_ok,
   \* the frame size a set_fmt asked for, and whether it was a TRY request
   req |-> << 0, 0 >>, try |-> FALSE,
   \* the operation before this one, a set_fmt on the active format apart
   prev |-> IF last.op = "set_fmt" /\ ~last.try THEN "set_fmt" ELSE "other",
   mode_before |-> cur_mode,
   ranges_same |-> Ranges(r.ctrls) = Ranges(ctrls),
   \* the control a VIDIOC_S_CTRL named, the value it asked for brought into
   \* range, and the value the control had
   id |-> "none", val |-> 0, val_before |-> 0]

\* the driver state an operation leaves behind
Store(r, ph, susp, l) ==
  /\ phase' = ph
  /\ suspended' = susp
  /\ last' = l
  /\ regulator_enabled' = r.regulator_enabled
  /\ clk_enabled' = r.clk_enabled
  /\ streaming' = r.streaming
  /\ cur_mode' = r.cur_mode
  /\ ctrls' = r.ctrls
  /\ gpio_crs' = r.gpio_crs
  /\ gpio_pmic' = r.gpio_pmic
  /\ reg_count' = r.reg_count
  /\ clk_count' = r.clk_count
  /\ held' = r.held
  /\ pm_enabled' = r.pm_enabled
  /\ usage_count' = r.usage_count
  /\ hw' = r.hw
  /\ nops' = IF phase = "bound" THEN nops + 1 ELSE nops
  /\ UNCHANGED << io, acpi >>

\* an operation that runs from its call to its return in one step
Commit(r, ph, susp, l) == Store(r, ph, susp, l) /\ UNCHANGED sched

\* the phase an attach step that returned r.ret leaves the device in
Attached(r, ph) == IF r.ret = 0 THEN ph ELSE "failed"

Idle == phase = "bound" /\ ~suspended /\ nops < MaxOps

ProbeAcquire ==
  /\ phase = "unbound"
  /\ \E fail \in AcquireFails :
       \E r \in { probe_acquire(World, fail) } :
         Commit(r, Attached(r, "acquired"), FALSE, Last("probe_acquire", r, FALSE, TRUE))

ProbePowerUp ==
  /\ phase = "acquired"
  /\ \E regOk \in [1..retry_count -> BOOLEAN], clkOk \in [1..retry_count -> BOOLEAN] :
       \E r \in { probe_power_up(World, regOk, clkOk) } :
         Commit(r, Attached(r, "powered"), FALSE, Last("power_up", r, FALSE, TRUE))

ProbeFinish ==
  /\ phase = "powered"
  /\ \E fail \in FinishFails :
       \E r \in { probe_finish(World, fail) } :
         Commit(r, Attached(r, "bound"), FALSE, Last("probe_finish", r, FALSE, TRUE))

SetStream ==
  /\ Idle
  /\ \E enable \in BOOLEAN, pmOk \in BOOLEAN, fault \in BusFaults :
       \E r \in { ov5670_set_stream([World EXCEPT !.bus = fault], enable, pmOk) } :
         Commit(r, phase, FALSE, Last("set_stream", r, enable, pmOk))

\* VIDIOC_S_CTRL: a read-only control is refused before the driver is called
s_ctrl(w, id, val) ==
  IF w.ctrls[id].ro THEN [w EXCEPT !.ret = -EINVAL] ELSE v4l2_set_ctrl(w, id, val)

SetCtrl ==
  /\ Idle
  /\ \E id \in CtrlIds, fault \in 0..3 :
       \E val \in CtrlVals(id) :
         \E r \in { s_ctrl([World EXCEPT !.bus = fault], id, val) } :
           Commit(r, phase, FALSE,
                  [Last("set_ctrl", r, FALSE, TRUE)
                     EXCEPT !.id = id,
                            !.val = Clamp(val, ctrls[id].min, ctrls[id].max),
                            !.val_before = ctrls[id].val])

\* ov5670_set_pad_format: the TRY format lives in the file handle, outside
\* the driver state
set_fmt(w, try, width, height) ==
  IF try THEN [w EXCEPT !.ret = 0] ELSE ov5670_set_pad_format(w, width, height)

SetFormat ==
  /\ Idle
  /\ \E req \in FmtRequests \cup { ModeSize }, try \in BOOLEAN, fault \in 0..2 :
       \E r \in { set_fmt([World EXCEPT !.bus = fault], try, req[1], req[2]) } :
         Commit(r, phase, FALSE,
                [Last("set_fmt", r, FALSE, TRUE) EXCEPT !.req = req, !.try = try])

\* ov5670_open: fills the TRY format of the file handle from the current mode
Open ==
  /\ Idle
  /\ \E r \in { World } :
       Commit(r, phase, FALSE, Last("open", r, FALSE, TRUE))

Suspend ==
  /\ Idle
  /\ \E fault \in 0..1 :
       \E r \in { ov5670_suspend([World EXCEPT !.bus = fault]) } :
         Commit(r, phase, TRUE, Last("suspend", r, FALSE, TRUE))

Resume ==
  /\ phase = "bound" /\ suspended /\ nops < MaxOps
  /\ \E fault \in BusFaults :
       \E r \in { ov5670_resume([World EXCEPT !.bus = fault]) } :
         Commit(r, phase, FALSE, Last("resume", r, FALSE, TRUE))

Remove ==
  /\ Idle
  /\ \E r \in { ov5670_remove(World) } :
       Commit(r, "removed", FALSE, Last("remove", r, FALSE, TRUE))

(***************************************************************************)
(* Threads.  Each thread calls one operation at a time and runs it in      *)
(* steps: the call, mutex_lock where the operation takes the mutex, the    *)
(* body, the end of its register access, mutex_unlock and the return.  The *)
(* body changes the driver state in one step; a thread whose body accessed *)
(* registers stays at "ral" until its last transaction is over.            *)
(***************************************************************************)
\* the operations that run with ov5670->mutex held: ov5670_set_stream,
\* ov5670_get_pad_format, ov5670_set_pad_format and ov5670_open take it, the
\* control framework takes it (ctrl_hdlr->lock) around ov5670_set_ctrl;
\* ov5670_suspend and ov5670_resume do not take it
LockOps == {"set_stream", "set_ctrl", "set_fmt", "get_fmt", "open"}

\* ov5670_probe with every step succeeding
ThreadAttach ==
  /\ phase = "unbound"
  /\ \E r \in { probe_finish(
                   probe_power_up(probe_acquire(World, "none"),
                                  [i \in 1..retry_count |-> TRUE],
                                  [i \in 1..retry_count |-> TRUE]),
                   "none") } :
       Commit(r, Attached(r, "bound"), FALSE, Last("probe_finish", r, FALSE, TRUE))

\* thread t calls an operation; the PM core calls ov5670_suspend and
\* ov5670_resume in turn, one at a time
Call(t) ==
  /\ phase = "bound" /\ sched.pc[t] = "idle" /\ sched.calls < MaxCalls
  /\ \E op \in LockOps \cup {"suspend", "resume"} :
       /\ op = "suspend" => ~suspended
       /\ op = "resume" => suspended
       /\ op \in {"suspend", "resume"}
            => \A u \in Threads : sched.op[u] \notin {"suspend", "resume"}
       /\ sched' = [sched EXCEPT !.pc[t] = "called", !.op[t] = op, !.calls = @ + 1]
  /\ UNCHANGED << phase, regulator_enabled, clk_enabled, streaming, cur_mode,
                  ctrls, gpio_crs, gpio_pmic, reg_count, clk_count, held,
                  pm_enabled, usage_count, suspended, hw, last, nops, io, acpi >>

\* mutex_lock at the start of an operation that takes the mutex: the thread
\* goes on when the mutex is free; the other operations go on at once
Enter(t) ==
  /\ sched.pc[t] = "called"
  /\ sched.op[t] \in LockOps => sched.owner = 0
  /\ sched' = [sched EXCEPT !.pc[t] = "body",
                            !.owner = IF sched.op[t] \in LockOps THEN t ELSE @]
  /\ UNCHANGED << phase, regulator_enabled, clk_enabled, streaming, cur_mode,
                  ctrls, gpio_crs, gpio_pmic, reg_count, clk_count, held,
                  pm_enabled, usage_count, suspended, hw, last, nops, io, acpi >>

\* whether the body of op takes ov5670->mutex itself, on top of the
\* mutex_lock at its start: ov5670_start_streaming and ov5670_set_pad_format
\* call __v4l2_ctrl_handler_setup, __v4l2_ctrl_s_ctrl and
\* __v4l2_ctrl_modify_range, which expect the lock held and do not take it
relock(op) == FALSE

\* the body of operation op; arg chooses between two argument values, pmOk
\* tells whether pm_runtime_get_sync succeeds
ThreadBody(w, op, arg, pmOk) ==
  CASE op = "set_stream" -> ov5670_set_stream(w, arg, pmOk)
    [] op = "set_ctrl" ->
         s_ctrl(w, "analogue_gain", IF arg THEN ANALOG_GAIN_MAX ELSE ANALOG_GAIN_DEFAULT)
    [] op = "set_fmt" ->
         IF arg THEN set_fmt(w, FALSE, 1280, 720) ELSE set_fmt(w, FALSE, 2592, 1944)
    [] op = "suspend" -> ov5670_suspend(w)
    [] op = "resume" -> ov5670_resume(w)
    [] OTHER -> [w EXCEPT !.ret = 0]

\* thread t runs the body of its operation, with every bus transaction
\* succeeding, with the first one failing, or with the runtime-PM
\* activation failing; a body that takes the mutex waits until it is free
Body(t) ==
  /\ sched.pc[t] = "body"
  /\ relock(sched.op[t]) => sched.owner = 0
  /\ \E arg \in BOOLEAN, fail \in {"none", "bus", "pm"} :
       \E r \in { ThreadBody([World EXCEPT !.bus = IF fail = "bus" THEN 1 ELSE 0],
                             sched.op[t], arg, fail # "pm") } :
         /\ Store(r, phase,
                  IF sched.op[t] = "suspend" THEN TRUE
                  ELSE IF sched.op[t] = "resume" THEN FALSE ELSE suspended,
                  Last(sched.op[t], r, arg, fail # "pm"))
         /\ sched' = [sched EXCEPT
                        !.pc[t] = IF \E i \in 1..Len(r.tr) : r.tr[i].kind \in {"w", "r"}
                                    THEN "ral" ELSE "done",
                        !.ret[t] = r.ret]

\* the last transaction of thread t is over
RalDone(t) ==
  /\ sched.pc[t] = "ral"
  /\ sched' = [sched EXCEPT !.pc[t] = "done"]
  /\ UNCHANGED << phase, regulator_enabled, clk_enabled, streaming, cur_mode,
                  ctrls, gpio_crs, gpio_pmic, reg_count, clk_count, held,
                  pm_enabled, usage_count, suspended, hw, last, nops, io, acpi >>

\* a return that leaves out mutex_unlock when the operation failed
unlock_and_return_on_success(owner, op, ret) ==
  IF op \in LockOps /\ ret = 0 THEN 0 ELSE owner

\* the owner of the mutex after operation op returned ret: every return
\* path of an operation that took the mutex goes through its mutex_unlock
\* (the label unlock_and_return of ov5670_set_stream)
unlock_and_return(owner, op, ret) == IF op \in LockOps THEN 0 ELSE owner

\* mutex_unlock, where the operation took the mutex, and the return
Return(t) ==
  /\ sched.pc[t] = "done"
  /\ sched' = [sched EXCEPT !.pc[t] = "idle", !.op[t] = "none", !.ret[t] = 0,
                            !.owner = unlock_and_return(@, sched.op[t], sched.ret[t])]
  /\ UNCHANGED << phase, regulator_enabled, clk_enabled, streaming, cur_mode,
                  ctrls, gpio_crs, gpio_pmic, reg_count, clk_count, held,
                  pm_enabled, usage_count, suspended, hw, last, nops, io, acpi >>

(***************************************************************************)
(* The end of ov5670_probe in two steps.  The sub-device is registered     *)
(* before pm_runtime_enable, so a control can be set in between, from      *)
(* another thread, while runtime PM is disabled for the device.            *)
(***************************************************************************)
\* ov5670_probe up to the registration of the sub-device, every step
\* succeeding
AttachRegister ==
  /\ phase = "unbound"
  /\ \E r \in { probe_register(
                   ov5670_identify_module(
                     probe_power_up(probe_acquire(World, "none"),
                                    [i \in 1..retry_count |-> TRUE],
                                    [i \in 1..retry_count |-> TRUE]),
                     FALSE)) } :
       Commit(r, "registered", FALSE, Last("probe_register", r, FALSE, TRUE))

\* VIDIOC_S_CTRL between the registration and pm_runtime_enable
EarlySetCtrl ==
  /\ phase = "registered" /\ sched.calls < MaxCalls
  /\ \E id \in CtrlIds, fault \in 0..3 :
       \E val \in CtrlVals(id) :
         \E r \in { s_ctrl([World EXCEPT !.bus = fault], id, val) } :
           Store(r, phase, FALSE,
                 [Last("set_ctrl", r, FALSE, TRUE)
                    EXCEPT !.id = id,
                           !.val = Clamp(val, ctrls[id].min, ctrls[id].max),
                           !.val_before = ctrls[id].val])
  /\ sched' = [sched EXCEPT !.calls = @ + 1]

\* the rest of ov5670_probe
AttachEnable ==
  /\ phase = "registered"
  /\ \E r \in { probe_enable(World) } :
       Commit(r, "bound", FALSE, Last("probe_finish", r, FALSE, TRUE))

(***************************************************************************)
(* ov5670_write_reg called on its own, with any address, width and value.  *)
(***************************************************************************)
\* values handed to ov5670_write_reg: 0, 0x12, 0x1234, 0x123456, 0x12345678
WriteVals == {0, 18, 4660, 1193046, 305419896}

\* the buffer ov5670_write_reg hands to i2c_master_send: buf[0] = reg >> 8,
\* buf[1] = reg & 0xff, then the bytes of the value
write_reg_bytes(reg, len, val) ==
  IF len > 4
    THEN << >>
    ELSE write_reg_buf(<< reg \div 256, reg % 256 >>, cpu_to_be32(val), 4 - len)

WriteReg ==
  \E reg \in {OV5670_REG_MODE_SELECT, OV5670_REG_EXPOSURE, OV5670_REG_TEST_PATTERN_CTRL},
     len \in 0..5, val \in WriteVals, fault \in 0..1 :
    \E r \in { ov5670_write_reg([World EXCEPT !.bus = fault], "ctrl", reg, len, val) } :
      /\ io' = [reg |-> reg, len |-> len, val |-> val,
                buf |-> write_reg_bytes(reg, len, val), sent |-> r.tr, ret |-> r.ret]
      /\ UNCHANGED << phase, regulator_enabled, clk_enabled, streaming, cur_mode,
                      ctrls, gpio_crs, gpio_pmic, reg_count, clk_count, held,
                      pm_enabled, usage_count, suspended, hw, last, nops, acpi,
                      sched >>

(***************************************************************************)
(* The firmware blob reader, read_acpi_block of get_acpi_data.c.           *)
(***************************************************************************)
\* memcpy(dst, src, n)
memcpy(dst, src, n) == [i \in 1..Len(dst) |-> IF i <= n THEN src[i] ELSE dst[i]]

\* read_acpi_block(dev, id, data, size).  eval is what acpi_evaluate_object
\* does: "fail" (no success status), "null" (success, no object returned),
\* "integer" (an object that is no buffer) or "buffer" (a buffer object that
\* holds blob).  allocated and freed count the objects the evaluation
\* allocated and the ones kfree released; kfree(NULL) releases nothing.
\* steps lists what the call does with the returned object, in order.

\* a reader whose too-small branch returns without the kfree of the err label
read_acpi_block_leak(data, eval, blob, size) ==
  CASE eval = "fail" ->
         [ret |-> -ENODEV, data |-> data, allocated |-> 0, freed |-> 0,
          steps |-> << >>]
    [] eval = "null" ->
         [ret |-> -ENODEV, data |-> data, allocated |-> 0, freed |-> 0,
          steps |-> << "kfree_null" >>]
    [] eval = "integer" ->
         [ret |-> -ENODEV, data |-> data, allocated |-> 1, freed |-> 1,
          steps |-> << "type", "kfree" >>]
    [] OTHER ->
         IF Len(blob) > size
           THEN [ret |-> -ENODEV, data |-> data, allocated |-> 1, freed |-> 0,
                 steps |-> << "type", "length" >>]
           ELSE [ret |-> Len(blob), data |-> memcpy(data, blob, Min(size, Len(blob))),
                 allocated |-> 1, freed |-> 1,
                 steps |-> << "type", "length", "memcpy", "length", "kfree" >>]

read_acpi_block(data, eval, blob, size) ==
  CASE eval = "fail" ->
         [ret |-> -ENODEV, data |-> data, allocated |-> 0, freed |-> 0,
          steps |-> << >>]
    [] eval = "null" ->
         [ret |-> -ENODEV, data |-> data, allocated |-> 0, freed |-> 0,
          steps |-> << "kfree_null" >>]
    [] eval = "integer" ->
         [ret |-> -ENODEV, data |-> data, allocated |-> 1, freed |-> 1,
          steps |-> << "type", "kfree" >>]
    [] OTHER ->
         IF Len(blob) > size
           THEN [ret |-> -ENODEV, data |-> data, allocated |-> 1, freed |-> 1,
                 steps |-> << "type", "length", "kfree" >>]
           ELSE [ret |-> Len(blob), data |-> memcpy(data, blob, Min(size, Len(blob))),
                 allocated |-> 1, freed |-> 1,
                 steps |-> << "type", "length", "memcpy", "length", "kfree" >>]

\* the firmware objects of up to MaxBlob bytes, each byte 1 or 2
AcpiBlobs == UNION { [1..n -> {1, 2}] : n \in 0..MaxBlob }

\* a call of read_acpi_block with a destination of size bytes, all 0 before
ReadAcpiBlock ==
  \E eval \in {"fail", "null", "integer", "buffer"}, blob \in AcpiBlobs,
     size \in 0..MaxBlob :
    /\ eval # "buffer" => blob = << >>
    /\ \E r \in { read_acpi_block([i \in 1..size |-> 0], eval, blob, size) } :
         acpi' = [NoAcpi EXCEPT !.eval = eval, !.blob = blob, !.size = size,
                                !.data = r.data, !.ret = r.ret,
                                !.allocated = r.allocated, !.freed = r.freed,
                                !.steps = r.steps]
    /\ UNCHANGED << phase, regulator_enabled, clk_enabled, streaming, cur_mode,
                    ctrls, gpio_crs, gpio_pmic, reg_count, clk_count, held,
                    pm_enabled, usage_count, suspended, hw, last, nops, io,
                    sched >>

(***************************************************************************)
(* The dependent-device resolver, get_dep_dev of ov5670.c (which searches  *)
(* pci_bus_type) and of get_acpi_data.c (which searches platform_bus_type).*)
(* A pointer is 0 (NULL), the position i of the handle whose device it     *)
(* points to, or -1 (a value that points to no device).                    *)
(***************************************************************************)
\* what the firmware and the buses hold for a handle of _DEP: whether
\* acpi_get_object_info succeeds, the hardware id it reports ("" when
\* ACPI_VALID_HID is clear), whether acpi_bus_get_device finds the ACPI
\* device of the handle, and the buses that hold a device with its fwnode
DepHandles ==
  { [info |-> FALSE, hid |-> "", adev |-> FALSE, buses |-> {}],
    [info |-> TRUE, hid |-> "", adev |-> TRUE, buses |-> {"pci", "platform"}],
    [info |-> TRUE, hid |-> "PNP0C02", adev |-> TRUE, buses |-> {"pci", "platform"}],
    [info |-> TRUE, hid |-> "INT3472", adev |-> FALSE, buses |-> {}],
    [info |-> TRUE, hid |-> "INT3472", adev |-> TRUE, buses |-> {}],
    [info |-> TRUE, hid |-> "INT3472", adev |-> TRUE, buses |-> {"pci"}],
    [info |-> TRUE, hid |-> "INT3472", adev |-> TRUE, buses |-> {"platform"}] }

\* bus_find_device(bus, NULL, &device->fwnode, match_depend) for handle i
bus_find_device(bus, handles, i) == IF bus \in handles[i].buses THEN i ELSE 0

RECURSIVE get_dep_dev_from(_, _, _, _)
\* the loop of get_dep_dev from handle i on, and the test that follows it;
\* dep_dev is the value the local variable holds
get_dep_dev_from(bus, handles, i, dep_dev) ==
  IF i > Len(handles)
    THEN IF dep_dev = 0
           THEN [ret |-> -EINVAL, dev |-> 0]
           ELSE [ret |-> 0, dev |-> dep_dev]
  ELSE IF ~handles[i].info THEN [ret |-> -ENODEV, dev |-> 0]
  ELSE IF handles[i].hid # "INT3472"
    THEN get_dep_dev_from(bus, handles, i + 1, dep_dev)
  ELSE IF ~handles[i].adev THEN [ret |-> -ENODEV, dev |-> 0]
  ELSE IF bus_find_device(bus, handles, i) # 0
    THEN [ret |-> 0, dev |-> bus_find_device(bus, handles, i)]
  ELSE get_dep_dev_from(bus, handles, i + 1, 0)

\* get_dep_dev.  has: the device has a _DEP method; handles: the package it
\* evaluates to (acpi_evaluate_reference fails on an empty package); junk:
\* the value the uninitialised local dep_dev holds when the loop starts
get_dep_dev(bus, has, handles, junk) ==
  IF ~has THEN [ret |-> -ENODEV, dev |-> 0]
  ELSE IF handles = << >> THEN [ret |-> -ENODEV, dev |-> 0]
  ELSE get_dep_dev_from(bus, handles, 1, junk)

\* a call of get_dep_dev with a _DEP package of up to MaxHandles handles
GetDepDev ==
  \E bus \in {"pci", "platform"}, has \in BOOLEAN, junk \in {0, -1},
     handles \in UNION { [1..n -> DepHandles] : n \in 0..MaxHandles } :
    /\ ~has => handles = << >>
    /\ \E r \in { get_dep_dev(bus, has, handles, junk) } :
         acpi' = [NoAcpi EXCEPT !.dep = [bus |-> bus, has |-> has, handles |-> handles,
                                         junk |-> junk, ret |-> r.ret, dev |-> r.dev]]
    /\ UNCHANGED << phase, regulator_enabled, clk_enabled, streaming, cur_mode,
                    ctrls, gpio_crs, gpio_pmic, reg_count, clk_count, held,
                    pm_enabled, usage_count, suspended, hw, last, nops, io,
                    sched >>

(***************************************************************************)
(* get_acpi_data of get_acpi_data.c: the resolver, the read of the sensor  *)
(* record SSDB, the read of the companion record CLDB, and the dumps.      *)
(***************************************************************************)
\* get_acpi_data after get_dep_dev returned dep, with s the result of
\* read_acpi_block for SSDB and c the one for CLDB, which is read only
\* when the resolver returned a device.  dumped lists the records handed to
\* dump_ssdb and dump_cldb, fields what dump_ssdb decodes.
get_acpi_data(dep, s, c) ==
  IF s.ret < 0
    THEN [ret |-> s.ret, dumped |-> << >>, fields |-> NoAcpi.probe.fields]
  ELSE IF dep.ret < 0
    THEN [ret |-> 0, dumped |-> << "ssdb" >>, fields |-> dump_ssdb(s.data)]
  ELSE IF c.ret < 0
    THEN [ret |-> c.ret, dumped |-> << >>, fields |-> NoAcpi.probe.fields]
  ELSE [ret |-> 0, dumped |-> << "ssdb", "cldb" >>, fields |-> dump_ssdb(s.data)]

\* a call of get_acpi_data.  The firmware objects SSDB and CLDB are buffers
\* one byte shorter than the record, as long as it, or one byte longer, the
\* byte at offset i - 1 being i; eval tells what the evaluation of both
\* returns; stack is what the local records hold before the reads.
GetAcpiData ==
  \E eval \in {"fail", "integer", "buffer"}, ds \in -1..1, dc \in -1..1,
     stack \in {0, 255}, junk \in {0, -1},
     handles \in UNION { [1..n -> DepHandles] : n \in 0..1 } :
    /\ eval # "buffer" => (ds = 0 /\ dc = 0)
    /\ \E ssdb \in { [i \in 1..(sizeof("intel_ssdb") + ds) |-> i] },
          cldb \in { [i \in 1..(sizeof("intel_cldb") + dc) |-> i] },
          dep \in { get_dep_dev("platform", TRUE, handles, junk) } :
         \E r \in { get_acpi_data(
                       dep,
                       read_acpi_block([i \in 1..sizeof("intel_ssdb") |-> stack],
                                       eval, ssdb, sizeof("intel_ssdb")),
                       read_acpi_block([i \in 1..sizeof("intel_cldb") |-> stack],
                                       eval, cldb, sizeof("intel_cldb"))) } :
           acpi' = [NoAcpi EXCEPT !.probe = [ssdb |-> ssdb, cldb |-> cldb, eval |-> eval,
                                             dep |-> dep.ret, ret |-> r.ret,
                                             dumped |-> r.dumped, fields |-> r.fields]]
    /\ UNCHANGED << phase, regulator_enabled, clk_enabled, streaming, cur_mode,
                    ctrls, gpio_crs, gpio_pmic, reg_count, clk_count, held,
                    pm_enabled, usage_count, suspended, hw, last, nops, io,
                    sched >>

(***************************************************************************)
(* Properties.                                                             *)
(***************************************************************************)
\* the trace of the last operation without its runtime-PM events
BusTrace == SelectSeq(last.tr, LAMBDA e : e.step # "pm")
\* its bus transactions
IsTx(e) == e.kind = "w" \/ e.kind = "r"
Transactions == SelectSeq(last.tr, IsTx)
\* the values returned by the steps of ov5670_start_streaming
StepEnds == SelectSeq(last.tr, LAMBDA e : e.kind = "ret")
\* how often the last operation made runtime-PM call kind
PmCalls(kind) == Len(SelectSeq(last.tr, LAMBDA e : e.step = "pm" /\ e.kind = kind))

\* the last operation was setStream(true) called while Idle
StartRequested == last.op = "set_stream" /\ last.enable /\ ~last.streaming_before
\* the last operation was setStream(false) called while Streaming
StopRequested == last.op = "set_stream" /\ ~last.enable /\ last.streaming_before

\* C1: in every state after attach, streaming implies that the regulator
\* bundle and the clock are enabled.
C1_StreamingImpliesPowered ==
  streaming => (regulator_enabled /\ clk_enabled)

\* C2: when power_up has returned success and no power-down was requested
\* since, the regulator bundle and the clock are enabled.
C2_PowerUpLeavesOn ==
  (phase = "powered" /\ last.op = "power_up" /\ last.ret = 0)
    => (regulator_enabled /\ clk_enabled)

\* C3: a setStream(true) that fails after runtime-PM activation was acquired
\* leaves streaming false and the usage count at its value before the call,
\* having released the reference of this call exactly once.
C3_StartFailureReleasesPm ==
  (StartRequested /\ last.pm_ok /\ last.ret # 0)
    => /\ ~streaming
       /\ usage_count = last.usage_before
       /\ PmCalls("get_sync") = 1
       /\ PmCalls("put_noidle") = 0
       /\ PmCalls("put") = 1 + PmCalls("get_if_in_use")

\* C3 happens: a start that fails in the control replay
C3_Witness ==
  /\ StartRequested /\ last.pm_ok /\ last.ret # 0
  /\ \E i \in 1..Len(last.tr) : last.tr[i].step = "ctrl" /\ IsTx(last.tr[i]) /\ ~last.tr[i].ok

\* C4: a setStream(true) whose runtime-PM activation fails returns that
\* error, issues no register access, leaves streaming false and the usage
\* count at its value before the call.
C4_PmFailureAborts ==
  (StartRequested /\ ~last.pm_ok)
    => /\ last.ret < 0
       /\ Transactions = << >>
       /\ ~streaming
       /\ usage_count = last.usage_before
       /\ last.same

\* C4 happens
C4_Witness == StartRequested /\ ~last.pm_ok /\ phase = "bound"

\* C5: setStream(e) with the streaming flag already equal to e returns
\* success without any register access or runtime-PM call and changes nothing.
C5_SameStateIsNoOp ==
  (last.op = "set_stream" /\ last.enable = last.streaming_before)
    => /\ last.ret = 0
       /\ last.tr = << >>
       /\ last.same

\* C5 happens: a second setStream(true) while Streaming
C5_Witness ==
  last.op = "set_stream" /\ last.enable /\ last.streaming_before /\ usage_count = 1

\* C6: setStream(false) while Streaming returns success, clears streaming and
\* releases the runtime-PM activation exactly once, whatever the standby
\* write does.
C6_StopAlwaysSucceeds ==
  StopRequested
    => /\ last.ret = 0
       /\ ~streaming
       /\ usage_count = last.usage_before - 1
       /\ PmCalls("put") = 1
       /\ PmCalls("put_noidle") = 0 /\ PmCalls("get_sync") = 0
       /\ Len(Transactions) = 1
       /\ Transactions[1].reg = OV5670_REG_MODE_SELECT
       /\ Transactions[1].val = OV5670_MODE_STANDBY

\* C6 happens with a standby write that fails
C6_Witness == StopRequested /\ ~Transactions[1].ok

\* the steps of a stream start, in order
StartOrder == << "reset", "pll", "mode", "ctrl", "stream" >>
StepRank(step) == CHOOSE i \in 1..Len(StartOrder) : StartOrder[i] = step
\* the (register, value) pairs written in step
Written(step) ==
  LET t == SelectSeq(last.tr, LAMBDA e : e.step = step /\ e.kind = "w")
  IN  [i \in 1..Len(t) |-> << t[i].reg, t[i].val >>]

\* C7: a stream start runs software reset, link-frequency table, mode table,
\* control replay and streaming-mode write in this order; a step that fails
\* is the last one; streaming becomes true only when the streaming-mode
\* write succeeded.
C7_StartOrder ==
  (StartRequested /\ last.pm_ok)
    => /\ Len(StepEnds) \in 1..Len(StartOrder)
       /\ \A i \in 1..Len(StepEnds) :
            /\ StepEnds[i].step = StartOrder[i]
            /\ (i < Len(StepEnds) => StepEnds[i].ok)
       /\ \A i \in 1..Len(BusTrace) : \A j \in 1..Len(BusTrace) :
            i < j => /\ StepRank(BusTrace[i].step) <= StepRank(BusTrace[j].step)
                     /\ (BusTrace[i].kind = "ret"
                           => StepRank(BusTrace[i].step) < StepRank(BusTrace[j].step))
       /\ Written("reset") = << << OV5670_REG_SOFTWARE_RST, OV5670_SOFTWARE_RST >> >>
       /\ (Len(StepEnds) > 2 /\ StepEnds[2].ok
             => Written("pll") = Prefix(mipi_data_rate_840mbps))
       /\ (Len(StepEnds) > 3 /\ StepEnds[3].ok
             => Written("mode") = Prefix(mode_regs[cur_mode]))
       /\ (streaming <=> (Len(StepEnds) = Len(StartOrder) /\ StepEnds[Len(StartOrder)].ok))
       /\ (streaming => /\ last.ret = 0
                        /\ Written("stream") =
                             << << OV5670_REG_MODE_SELECT, OV5670_MODE_STREAMING >> >>
                        /\ hw.mode_select = OV5670_MODE_STREAMING)

\* C7 happens: a start that went through all five steps
C7_Witness ==
  StartRequested /\ last.pm_ok /\ streaming /\ Len(StepEnds) = Len(StartOrder)

\* C8: power_up makes at most 4 attempts, succeeds at the first attempt that
\* succeeds, and after 4 failed attempts returns the error with the device Off.
C8_RetryUntilSuccess ==
  last.op = "power_up"
    => /\ last.attempts <= retry_count
       /\ (last.ret = 0 => last.att_clk_ok /\ last.clk_failed = last.attempts - 1)
       /\ (last.ret # 0 => /\ last.attempts = retry_count
                           /\ last.clk_failed = retry_count
                           /\ ~regulator_enabled /\ ~clk_enabled
                           /\ ~gpio_crs /\ ~gpio_pmic)

\* C9: every failed power-up attempt is followed by exactly one power-down
\* path, and no enable of the regulator bundle or the clock is left over.
C9_OnePowerDownPerFailure ==
  last.op = "power_up"
    => /\ last.pd_paths = last.clk_failed
       /\ (last.ret # 0 => reg_count = 0 /\ clk_count = 0)

\* C10: a power-up attempt reports failure exactly when its clock enable failed.
C10_FailureIffClockFailed ==
  last.op = "power_up" => ((last.att_ret # 0) <=> ~last.att_clk_ok)

\* the resource steps of the last operation, by name
PowerSteps ==
  [i \in 1..Len(SelectSeq(last.tr, LAMBDA e : e.step = "power")) |->
     SelectSeq(last.tr, LAMBDA e : e.step = "power")[i].kind]
\* where the last power-up attempt of the last operation starts
AttemptStart ==
  CHOOSE i \in 1..Len(PowerSteps) :
    /\ PowerSteps[i] = "attempt"
    /\ \A j \in (i + 1)..Len(PowerSteps) : PowerSteps[j] # "attempt"
\* the resource steps of that attempt
AttemptSteps == SubSeq(PowerSteps, AttemptStart + 1, Len(PowerSteps))
\* the steps that take a resource away
ReleaseSteps == {"clk_disable", "reg_disable", "pmic_off", "crs_off"}

\* C11: a power-up attempt drives the _CRS lines active, then the PMIC
\* lines, then enables the regulator bundle, then the clock, all four
\* whatever the earlier ones return; an attempt that succeeds contains no
\* disable and no deassert step.
C11_PowerUpOrder ==
  (last.op = "power_up" /\ last.att_ret = 0)
    => /\ Len(AttemptSteps) >= 4
       /\ AttemptSteps[1] = "crs_on"
       /\ AttemptSteps[2] = "pmic_on"
       /\ AttemptSteps[3] \in {"reg_enable", "reg_enable_failed"}
       /\ AttemptSteps[4] \in {"clk_enable", "clk_enable_failed"}
       /\ \A i \in 1..Len(AttemptSteps) : AttemptSteps[i] \notin ReleaseSteps

\* the resource steps that follow step i of the last operation up to the
\* next drive of the _CRS lines
RECURSIVE StepsUntilCrs(_)
StepsUntilCrs(i) ==
  IF i >= Len(PowerSteps) THEN << >>
  ELSE IF PowerSteps[i + 1] \in {"crs_on", "crs_off"} THEN << PowerSteps[i + 1] >>
  ELSE << PowerSteps[i + 1] >> \o StepsUntilCrs(i + 1)
\* the power-down order, and the sequences that keep it while leaving out a
\* clock or a regulator bundle that is not enabled
PowerDownOrder == << "clk_disable", "reg_disable", "pmic_off", "crs_off" >>
PowerDownRuns ==
  { PowerDownOrder, SubSeq(PowerDownOrder, 2, 4), SubSeq(PowerDownOrder, 3, 4),
    << "clk_disable", "pmic_off", "crs_off" >> }

\* C12: power_down disables the clock, then the regulator bundle, then
\* deasserts the PMIC lines, then the _CRS lines, each resource that is
\* enabled and the GPIO lines always; wherever the turn-off block runs, the
\* clock is disabled before the regulator bundle and both before the GPIO
\* lines are driven.
C12_PowerDownOrder ==
  \A i \in 1..Len(PowerSteps) :
    /\ PowerSteps[i] = "power_down" => StepsUntilCrs(i) \in PowerDownRuns
    /\ PowerSteps[i] = "clk_disable"
         => /\ i < Len(PowerSteps)
            /\ PowerSteps[i + 1] \in {"reg_disable", "pmic_on", "pmic_off"}
    /\ (PowerSteps[i] = "reg_disable" /\ last.op = "power_up")
         => /\ i < Len(PowerSteps)
            /\ PowerSteps[i + 1] \in {"pmic_on", "pmic_off"}
    /\ PowerSteps[i] \in {"pmic_on", "pmic_off"}
         => /\ i < Len(PowerSteps)
            /\ PowerSteps[i + 1] \in {"crs_on", "crs_off", "reg_enable", "reg_enable_failed"}

\* C12 happens: the power_down at the end of a successful attach
C12_Witness ==
  /\ last.op = "probe_finish" /\ last.ret = 0
  /\ \E i \in 1..Len(PowerSteps) :
       PowerSteps[i] = "power_down" /\ StepsUntilCrs(i) = << "pmic_off", "crs_off" >>
  /\ ~gpio_crs /\ ~gpio_pmic

\* C13: the regulator bundle and the clock are never disabled more often
\* than they were enabled with success.
C13_NoDoubleDisable == reg_count >= 0 /\ clk_count >= 0

\* the fields of world w that outlive an operation
Persistent(w) ==
  [regulator_enabled |-> w.regulator_enabled, clk_enabled |-> w.clk_enabled,
   streaming |-> w.streaming, cur_mode |-> w.cur_mode, ctrls |-> w.ctrls,
   gpio_crs |-> w.gpio_crs, gpio_pmic |-> w.gpio_pmic,
   reg_count |-> w.reg_count, clk_count |-> w.clk_count, held |-> w.held,
   pm_enabled |-> w.pm_enabled, usage_count |-> w.usage_count, hw |-> w.hw]
\* the device is Off: nothing enabled, no GPIO line asserted
Off == ~regulator_enabled /\ ~clk_enabled /\ ~gpio_crs /\ ~gpio_pmic
\* the resource steps power_down made to reach world w
DownSteps(w) == { w.tr[i].kind : i \in 1..Len(w.tr) }

\* C14: power_down of a device that is Off disables neither the clock nor
\* the regulator bundle, returns 0 and leaves the device as it was; a
\* second power_down right after a power_down changes nothing.
C14_PowerDownIdempotent ==
  \A d \in { power_down(World) } :
    /\ Off => /\ d.ret = 0
              /\ Persistent(d) = Persistent(World)
              /\ DownSteps(d) \cap {"clk_disable", "reg_disable"} = {}
    /\ \A e \in { power_down([d EXCEPT !.tr = << >>]) } :
         /\ e.ret = 0
         /\ Persistent(e) = Persistent(d)
         /\ DownSteps(e) \cap {"clk_disable", "reg_disable"} = {}

\* C14 happens: the device is Off after the power_down that ends attach
C14_Witness ==
  /\ Off /\ last.op = "probe_finish" /\ last.ret = 0
  /\ \E i \in 1..Len(PowerSteps) : PowerSteps[i] = "power_down"

\* C15: an attach that fails after it acquired a resource leaves none of
\* them behind: no _CRS GPIO handle, no GPIO lookup table, no enable of the
\* regulator bundle or the clock, no mutex, control handler, media entity or
\* registration.  (The PMIC lines are device-managed handles of the sensor
\* device itself and are not looked at here.)
C15_FailedAttachReleasesAll ==
  phase = "failed"
    => /\ ~held.crs /\ held.lookup = 0
       /\ reg_count = 0 /\ clk_count = 0
       /\ ~held.mutex /\ ~held.handler /\ ~held.entity /\ ~held.registered

\* C16: once attach has failed or the device is detached, every reference
\* the resolver took on the companion device has been released.
C16_DepReferenceReleased ==
  phase \in {"failed", "removed"} => held.dep_ref = 0

\* C17: the maximum of exposure is the height of the current mode plus the
\* current vblank value minus 8, and the exposure value is not above it.
C17_ExposureBound ==
  phase = "bound"
    => /\ ctrls["exposure"].max
            = supported_modes[cur_mode].height + ctrls["vblank"].val - 8
       /\ ctrls["exposure"].val <= ctrls["exposure"].max

\* the entries of supported_modes nearest to the frame size req
NearestModes(req) ==
  { i \in 1..Len(supported_modes) :
      \A j \in 1..Len(supported_modes) :
        size_error(i, req[1], req[2]) <= size_error(j, req[1], req[2]) }
\* the last operation chose a mode for the active format
ModeSelected == last.op = "set_fmt" /\ ~last.try

\* C18 as stated: set_fmt selects an entry at minimum distance from the
\* request, the first one in catalog order when several are; a request of
\* 1300x700 selects 1280x720.
C18_NearestFirst ==
  ModeSelected
    => /\ cur_mode \in NearestModes(last.req)
       /\ \A j \in NearestModes(last.req) : cur_mode <= j
       /\ (last.req = << 1300, 700 >> => ModeSize = << 1280, 720 >>)

\* C18 as amended: set_fmt selects an entry at minimum distance from the
\* request (sum of the width and height differences), the last one in
\* catalog order when several are; a request of 1300x700 selects 1280x720.
C18_NearestLast ==
  ModeSelected
    => /\ cur_mode \in NearestModes(last.req)
       /\ \A j \in NearestModes(last.req) : cur_mode >= j
       /\ (last.req = << 1300, 700 >> => ModeSize = << 1280, 720 >>)

\* C18 happens: a request at the same distance from 2592x1944 and 2560x1440
C18_Witness ==
  /\ ModeSelected /\ last.req = << 2576, 1692 >>
  /\ NearestModes(last.req) = {1, 4} /\ cur_mode = 4

\* C19: the size of the mode a set_fmt selected selects that mode again, and
\* a set_fmt that asks for the size the set_fmt before it selected leaves the
\* mode and the limits and defaults of all controls as they were.
C19_SelectionIdempotent ==
  ModeSelected
    => /\ v4l2_find_nearest_size(ModeSize[1], ModeSize[2]) = cur_mode
       /\ (/\ last.prev = "set_fmt"
           /\ last.req = << supported_modes[last.mode_before].width,
                            supported_modes[last.mode_before].height >>)
            => (cur_mode = last.mode_before /\ last.ranges_same)

\* C19 happens: 1280x720 asked for again after a set_fmt selected it
C19_Witness ==
  /\ ModeSelected /\ last.prev = "set_fmt"
  /\ last.mode_before = 5 /\ last.req = << 1280, 720 >> /\ cur_mode = 5

\* C20: hblank plus the width of the current mode is 2724, and minimum,
\* maximum, default and value of the hblank control are all 2724 minus that
\* width, after attach and after every set_fmt.
C20_HblankFixed ==
  phase = "bound"
    => /\ \A i \in 1..Len(supported_modes) :
            (OV5670_FIXED_PPL - supported_modes[i].width) + supported_modes[i].width = 2724
       /\ ctrls["hblank"].val + supported_modes[cur_mode].width = 2724
       /\ ctrls["hblank"].min = ctrls["hblank"].val
       /\ ctrls["hblank"].max = ctrls["hblank"].val
       /\ ctrls["hblank"].def = ctrls["hblank"].val

\* C20 happens: a set_fmt that went from 2592x1944 to 1280x720
C20_Witness ==
  /\ ModeSelected /\ last.mode_before = 1 /\ cur_mode = 5
  /\ ctrls["hblank"].val = 1444

\* C21: after a set_fmt on the active format the limits of vblank are
\* vts_min - height and 0xFFFF - height of the chosen mode, its default is
\* vts_def - height, its value is that default, and link_freq and pixel_rate
\* hold the link-frequency index of the mode and the pixel rate derived from it.
C21_FormatControls ==
  ModeSelected
    => /\ ctrls["vblank"].min
            = supported_modes[cur_mode].vts_min - supported_modes[cur_mode].height
       /\ ctrls["vblank"].max = 65535 - supported_modes[cur_mode].height
       /\ ctrls["vblank"].def
            = supported_modes[cur_mode].vts_def - supported_modes[cur_mode].height
       /\ ctrls["vblank"].val = ctrls["vblank"].def
       /\ ctrls["link_freq"].val = supported_modes[cur_mode].link_freq_index
       /\ ctrls["pixel_rate"].val = (422400000 * 2 * 2) \div 10

\* C22: a set_fmt issues no register read or write, in every state, while
\* streaming included; the register table of a mode is written only in the
\* "mode" step of a stream start.
C22_FormatNoHardware ==
  /\ last.op = "set_fmt" => Transactions = << >>
  /\ \A i \in 1..Len(Transactions) :
       Transactions[i].step = "mode" => last.op \in {"set_stream", "resume"}

\* the controls whose change reaches a register
HwCtrls == {"analogue_gain", "digital_gain", "exposure", "vblank", "test_pattern"}
\* the last operation was a VIDIOC_S_CTRL of such a control
HwCtrlSet == last.op = "set_ctrl" /\ last.id \in HwCtrls

\* C23: setControl of a hardware-affecting control accesses registers only
\* when the device is in use by runtime PM; when it is not, the call returns
\* 0, accesses no register, keeps the new value, and a changed vblank still
\* moves the maximum of exposure to height + vblank - 8 with the exposure
\* value brought below it.
C23_WritesOnlyInUse ==
  HwCtrlSet
    => /\ Transactions # << >>
            => (last.usage_before > 0 /\ PmCalls("get_if_in_use") >= 1)
       /\ last.usage_before = 0
            => /\ last.ret = 0
               /\ Transactions = << >>
               /\ ctrls[last.id].val = last.val
               /\ (last.id = "vblank" /\ last.val # last.val_before)
                    => /\ ctrls["exposure"].max
                            = supported_modes[cur_mode].height + last.val - 8
                       /\ ctrls["exposure"].val <= ctrls["exposure"].max

\* C24: a setControl during which a register read or write fails returns
\* the error, and the control holds the requested value afterwards.
C24_FailedWriteKeepsRequest ==
  (HwCtrlSet /\ \E i \in 1..Len(Transactions) : ~Transactions[i].ok)
    => /\ last.ret # 0
       /\ ctrls[last.id].val = last.val

\* the last operation was a suspend or a resume that found the flag set
SleepHook(op, flag) == last.op = op /\ last.streaming_before = flag
\* the last step of the start sequence that returned, and whether all did
LastStepOk == StepEnds # << >> /\ StepEnds[Len(StepEnds)].ok
\* the last transaction of the last operation was the standby write
EndsWithStandby ==
  /\ Transactions # << >>
  /\ Transactions[Len(Transactions)].step = "standby"
  /\ Transactions[Len(Transactions)].kind = "w"
  /\ Transactions[Len(Transactions)].reg = OV5670_REG_MODE_SELECT
  /\ Transactions[Len(Transactions)].val = OV5670_MODE_STANDBY
\* the transactions of the last operation that are not the standby write
StartTransactions == SelectSeq(Transactions, LAMBDA e : e.step # "standby")

\* C25: suspend while streaming issues the standby write and keeps the
\* streaming flag; resume with the flag set runs the start sequence again in
\* its order, and when a step fails issues the standby write and returns the
\* error; neither accesses a register when the flag is clear, neither changes
\* the runtime-PM usage count.
C25_SuspendResume ==
  /\ last.op \in {"suspend", "resume"}
       => /\ usage_count = last.usage_before
          /\ PmCalls("get_sync") = 0 /\ PmCalls("put_noidle") = 0
          /\ PmCalls("put") = PmCalls("get_if_in_use")
  /\ (SleepHook("suspend", FALSE) \/ SleepHook("resume", FALSE))
       => (last.tr = << >> /\ last.ret = 0 /\ ~streaming)
  /\ SleepHook("suspend", TRUE)
       => /\ streaming /\ last.ret = 0
          /\ Len(Transactions) = 1 /\ EndsWithStandby
  /\ SleepHook("resume", TRUE)
       => /\ Len(StepEnds) \in 1..Len(StartOrder)
          /\ \A i \in 1..Len(StepEnds) :
               StepEnds[i].step = StartOrder[i] /\ (i < Len(StepEnds) => StepEnds[i].ok)
          /\ Written("reset") = << << OV5670_REG_SOFTWARE_RST, OV5670_SOFTWARE_RST >> >>
          /\ LastStepOk
               => /\ Len(StepEnds) = Len(StartOrder) /\ last.ret = 0
                  /\ Written("stream")
                       = << << OV5670_REG_MODE_SELECT, OV5670_MODE_STREAMING >> >>
                  /\ StartTransactions = Transactions
          /\ ~LastStepOk
               => /\ last.ret = StepEnds[Len(StepEnds)].val /\ last.ret # 0
                  /\ EndsWithStandby
                  /\ Len(StartTransactions) = Len(Transactions) - 1

\* C25 happens: a resume whose start sequence fails in the table of the mode
C25_Witness ==
  /\ SleepHook("resume", TRUE) /\ last.ret = -EIO
  /\ StepEnds[Len(StepEnds)].step = "mode"
  /\ EndsWithStandby

\* the register list a step of the start sequence hands to ov5670_write_regs
ListOf(step) ==
  IF step = "pll" THEN Prefix(mipi_data_rate_840mbps) ELSE Prefix(mode_regs[cur_mode])
\* the transactions of that step in the last operation
StepTx(step) == SelectSeq(last.tr, LAMBDA e : e.step = step /\ IsTx(e))
\* the values the step returned (none when the step was not reached)
StepRet(step) == SelectSeq(last.tr, LAMBDA e : e.step = step /\ e.kind = "ret")
ListSteps == {"pll", "mode"}

\* C28: a register list is applied as single-byte writes in list order up to
\* the first write that fails: the writes made are the entries before it and
\* the failing one, each made once, none after it, and the list write returns
\* the error of that write; without a failing write every entry is written
\* and 0 is returned.
C28_WriteListStops ==
  \A step \in { t \in ListSteps : StepTx(t) # << >> } :
    /\ Len(StepTx(step)) <= Len(ListOf(step))
    /\ \A i \in 1..Len(StepTx(step)) :
         /\ StepTx(step)[i].kind = "w" /\ StepTx(step)[i].len = 1
         /\ << StepTx(step)[i].reg, StepTx(step)[i].val >>
              = << ListOf(step)[i][1], ListOf(step)[i][2] % 256 >>
         /\ (i < Len(StepTx(step)) => StepTx(step)[i].ok)
    /\ StepTx(step) # << >>
         => /\ Len(StepRet(step)) = 1
            /\ StepTx(step)[Len(StepTx(step))].ok
                 => (Len(StepTx(step)) = Len(ListOf(step)) /\ StepRet(step)[1].val = 0)
            /\ ~StepTx(step)[Len(StepTx(step))].ok
                 => (StepRet(step)[1].val = -EIO /\ last.ret = -EIO)

\* C28 happens: the first entry of the table of the mode is written, the
\* second one fails
C28_Witness ==
  /\ StartRequested /\ last.ret = -EIO
  /\ Len(StepTx("mode")) = 2
  /\ StepTx("mode")[1].ok /\ ~StepTx("mode")[2].ok
  /\ Len(ListOf("mode")) >= 2

\* the transactions of the last operation on the test-pattern register
IsTestPattern(e) == IsTx(e) /\ e.reg = OV5670_REG_TEST_PATTERN
\* the pattern the test-pattern write i of the last operation was made for:
\* the value asked for in a VIDIOC_S_CTRL, else the value replayed
PatternAt(i) ==
  IF last.op = "set_ctrl" /\ last.id = "test_pattern"
    THEN last.val ELSE ctrls["test_pattern"].val
\* bit 3 of v, and v without it
Bit3(v) == (v \div 8) % 2
OtherBits(v) == v - 8 * Bit3(v)

RECURSIVE BytesValue(_)
BytesValue(b) ==
  IF b = << >> THEN 0 ELSE 256 * BytesValue(SubSeq(b, 1, Len(b) - 1)) + b[Len(b)]
\* a call of ov5670_write_reg with a width of 1 to 4 was made
WidthInRange == io.len \in 1..4
\* what the claim says about the transaction apart from the value bytes: one
\* transfer of width + 2 bytes that starts with the address, high byte first,
\* and -EIO exactly when the transfer is incomplete
OneTransaction ==
  /\ Len(io.sent) = 1
  /\ Len(io.buf) = io.len + 2
  /\ 256 * io.buf[1] + io.buf[2] = io.reg
  /\ io.sent[1].reg = io.reg /\ io.sent[1].len = io.len
  /\ io.sent[1].val = BytesValue(SubSeq(io.buf, 3, Len(io.buf)))
  /\ io.ret = (IF io.sent[1].ok THEN 0 ELSE -EIO)

\* C27 as stated: a write of width 1 to 4 sends one transaction, the address
\* as two bytes, high byte first, then the first width bytes of the four-byte
\* big-endian form of the value; -EIO when the transfer is incomplete.
C27_MostSignificantBytes ==
  WidthInRange
    => /\ OneTransaction
       /\ SubSeq(io.buf, 3, Len(io.buf)) = SubSeq(cpu_to_be32(io.val), 1, io.len)

\* C27 as amended: the value bytes are the last width bytes of the four-byte
\* big-endian form, that is the width least significant bytes of the value,
\* the most significant of them first.
C27_LeastSignificantBytes ==
  WidthInRange
    => /\ OneTransaction
       /\ SubSeq(io.buf, 3, Len(io.buf)) = SubSeq(cpu_to_be32(io.val), 5 - io.len, 4)
       /\ BytesValue(SubSeq(io.buf, 3, Len(io.buf)))
            = (IF io.len = 4 THEN io.val ELSE io.val % Pow256(io.len))

\* C27 happens: 0x12345678 written with width 2 puts 0x56 0x78 on the wire
C27_Witness ==
  /\ WidthInRange /\ io.len = 2 /\ io.val = 305419896
  /\ io.reg = OV5670_REG_EXPOSURE
  /\ io.buf = << 53, 0, 86, 120 >>
  /\ io.ret = 0

\* the firmware returned a buffer object, of more bytes than the destination
\* holds
BlobRead == acpi.eval = "buffer"
BlobTooLong == BlobRead /\ Len(acpi.blob) > acpi.size

\* C30: a blob read whose object is longer than the destination fails with
\* an error that is not the one of a missing blob (-ENODEV, returned when the
\* object cannot be evaluated or is no buffer) and leaves the destination
\* as it was; any other read of a buffer object copies
\* min(capacity, length) bytes and returns the length.
C30_BlobReadLength ==
  /\ BlobTooLong
       => /\ acpi.ret < 0 /\ acpi.ret # -ENODEV
          /\ acpi.data = [i \in 1..acpi.size |-> 0]
  /\ (BlobRead /\ ~BlobTooLong)
       => /\ acpi.ret = Len(acpi.blob)
          /\ \A i \in 1..acpi.size :
               acpi.data[i] = (IF i <= Len(acpi.blob) THEN acpi.blob[i] ELSE 0)

\* the positions of step kind in the last call of read_acpi_block
StepsOf(kind) == { i \in 1..Len(acpi.steps) : acpi.steps[i] = kind }
\* the positions at which it reads the object the evaluation returned
ObjectUses == StepsOf("type") \cup StepsOf("length") \cup StepsOf("memcpy")

\* C31: whatever a blob read returns (the length, or an error because the
\* object is no buffer or is longer than the destination), the object the
\* firmware evaluation allocated is released by exactly one kfree, and the
\* call does not read the object after that kfree.
C31_TransientFreedOnce ==
  acpi.eval # "none"
    => /\ acpi.freed = acpi.allocated
       /\ Cardinality(StepsOf("kfree")) = acpi.allocated
       /\ \A k \in StepsOf("kfree") : \A u \in ObjectUses : u < k

\* C31 happens: a read refused because the object is longer than the
\* destination, with the object allocated and released
C31_Witness ==
  /\ BlobTooLong /\ acpi.ret < 0
  /\ acpi.allocated = 1 /\ acpi.freed = 1
  /\ StepsOf("kfree") # {}

\* C35: between the operations of an attached device the runtime-PM usage
\* count, which only the streaming state machine holds references in, is 1
\* when the streaming flag is set and 0 when it is clear, whatever bus
\* transactions and runtime-PM activations failed; it is never negative.
C35_PmReferences ==
  phase = "bound"
    => /\ usage_count = (IF streaming THEN 1 ELSE 0)
       /\ usage_count >= 0

\* C35 happens: a resume that failed on the bus leaves the flag set and the
\* one reference of the stream start held
C35_Witness ==
  /\ phase = "bound"
  /\ last.op = "resume" /\ last.ret # 0
  /\ streaming /\ usage_count = 1

\* C36: a setControl leaves the runtime-PM usage count as it found it,
\* whether pm_runtime_get_if_in_use took a reference, found the device not
\* in use, or failed because runtime PM is disabled for the device.
C36_SetCtrlBalanced ==
  last.op = "set_ctrl" => usage_count = last.usage_before

\* C37: a setFormat on the active format made while the streaming flag is
\* set leaves cur_mode, the mode whose register list the stream start
\* applied, as it was.
C37_ModeFixedWhileStreaming ==
  (last.op = "set_fmt" /\ ~last.try /\ last.streaming_before)
    => cur_mode = last.mode_before

\* C38: while the streaming flag is set and the system is not between a
\* suspend and its resume, the value last written to the mode-select
\* register is the streaming value.
C38_FlagMatchesSensor ==
  (phase = "bound" /\ streaming /\ ~suspended)
    => hw.mode_select = OV5670_MODE_STREAMING

\* the last call of the resolver had a dependency list to walk
Resolving == acpi.dep.bus # "none" /\ acpi.dep.has /\ acpi.dep.handles # << >>
\* the handles of that list whose hardware id is the companion id and which
\* resolve to a live device on the bus the resolver searches
LiveCompanions ==
  { i \in 1..Len(acpi.dep.handles) :
      /\ acpi.dep.handles[i].info /\ acpi.dep.handles[i].hid = "INT3472"
      /\ acpi.dep.handles[i].adev /\ acpi.dep.bus \in acpi.dep.handles[i].buses }
\* the first of them in declared order
FirstLive == CHOOSE i \in LiveCompanions : \A j \in LiveCompanions : i <= j

\* the metadata of every handle of the list can be fetched
InfoKnown == \A i \in 1..Len(acpi.dep.handles) : acpi.dep.handles[i].info

\* C33: when some handle of the dependency list has the companion hardware
\* id and resolves to a live device, the resolver returns the device of the
\* first such handle in declared order, and never the device of a handle
\* with another hardware id (the metadata of every handle being readable).
C33_FirstLiveCompanion ==
  (Resolving /\ LiveCompanions # {} /\ InfoKnown)
    => /\ acpi.dep.ret = 0
       /\ acpi.dep.dev = FirstLive

\* C34: when the dependency list is missing or empty, or none of its handles
\* both has the companion hardware id and resolves to a live device, the
\* resolver returns an error and no device.
C34_NoCompanionIsError ==
  (acpi.dep.bus # "none" /\ (~Resolving \/ LiveCompanions = {}))
    => /\ acpi.dep.ret < 0
       /\ acpi.dep.dev = 0

\* the last call of get_acpi_data read a sensor record, or a companion
\* record, that is longer than the layout of the record
LongSsdb ==
  acpi.probe.eval = "buffer" /\ Len(acpi.probe.ssdb) > sizeof("intel_ssdb")
LongCldb ==
  /\ acpi.probe.eval = "buffer" /\ acpi.probe.dep >= 0
  /\ Len(acpi.probe.ssdb) = sizeof("intel_ssdb")
  /\ Len(acpi.probe.cldb) > sizeof("intel_cldb")

\* C32: a sensor record or a companion record with bytes after the layout
\* is accepted: get_acpi_data succeeds, the record is dumped, and the fields
\* are decoded from the bytes of the layout.
C32_TrailingBytesIgnored ==
  /\ LongSsdb
       => /\ acpi.probe.ret = 0
          /\ \E i \in 1..Len(acpi.probe.dumped) : acpi.probe.dumped[i] = "ssdb"
          /\ acpi.probe.fields = dump_ssdb(acpi.probe.ssdb)
  /\ LongCldb
       => /\ acpi.probe.ret = 0
          /\ \E i \in 1..Len(acpi.probe.dumped) : acpi.probe.dumped[i] = "cldb"

\* the threads with a register transaction in progress
InRal == { t \in Threads : sched.pc[t] = "ral" }

\* C26: at most one register transaction is in progress at any time, and a
\* thread that has one in progress holds the mutex of the device.
C26_OneTransactionAtATime ==
  /\ Cardinality(InRal) <= 1
  /\ \A t \in InRal : sched.owner = t

\* the threads inside an operation that runs with the mutex held
InLocked ==
  { t \in Threads : sched.op[t] \in LockOps /\ sched.pc[t] \in {"body", "ral", "done"} }

\* C39: the mutex is held exactly by a thread that is inside setStream,
\* setControl, getFormat, setFormat or open, from its mutex_lock to its
\* return, whatever the operation returns; no body takes the mutex again
\* while its thread holds it; so the mutex is free when no operation is in
\* progress, and a thread that waits for it waits for a thread that can go on.
C39_LockReleased ==
  /\ \A t \in Threads : (t \in InLocked) <=> (sched.owner = t)
  /\ (\A t \in Threads : sched.pc[t] = "idle") => sched.owner = 0
  /\ \A t \in InLocked : sched.pc[t] = "body" => ~relock(sched.op[t])
  /\ \A t \in Threads :
       (sched.pc[t] = "called" /\ sched.op[t] \in LockOps /\ sched.owner # 0)
         => sched.owner \in InLocked

\* C39 happens: setStream(true) failed, in its start or in the runtime-PM
\* activation, its thread is back, and the mutex is free
C39_Witness ==
  /\ last.op = "set_stream" /\ last.enable /\ last.ret # 0
  /\ \A t \in Threads : sched.pc[t] = "idle"
  /\ sched.calls > 0
  /\ sched.owner = 0

Next ==
  \/ ProbeAcquire
  \/ ProbePowerUp
  \/ ProbeFinish
  \/ SetStream
  \/ SetCtrl
  \/ SetFormat
  \/ Open
  \/ Suspend
  \/ Resume
  \/ Remove

Spec == Init /\ [][Next]_vars

\* the operations called from several threads
NextThreads ==
  \/ ThreadAttach
  \/ \E t \in Threads : Call(t)
  \/ \E t \in Threads : Enter(t)
  \/ \E t \in Threads : Body(t)
  \/ \E t \in Threads : RalDone(t)
  \/ \E t \in Threads : Return(t)

SpecThreads == Init /\ [][NextThreads]_vars

\* ov5670_write_reg on its own
SpecWriteReg == Init /\ [][WriteReg]_vars

\* the attach with a control set before runtime PM is enabled
SpecProbe == Init /\ [][AttachRegister \/ EarlySetCtrl \/ AttachEnable]_vars

\* the firmware helpers on their own: read_acpi_block, get_dep_dev and
\* get_acpi_data
NextAcpi == ReadAcpiBlock \/ GetDepDev \/ GetAcpiData

SpecAcpi == Init /\ [][NextAcpi]_vars
====
